---- MODULE Spec2Model ----
(***************************************************************************)
(* The variable registry of the workflow engine.                           *)
(*                                                                         *)
(* Two registries exist in the sources.  ParseContext (stdlib/parser)      *)
(* keeps a map name -> Variable and is the context the legacy              *)
(* `variable(name = ...)` builtin adds to.  runner::VariableStore keeps a  *)
(* map identifier -> VariableEntry and is owned by the WorkflowDelegate.   *)
(* Which of the two is live depends on what was installed in the           *)
(* evaluator's `extra` slot (Parser::parse_workflow / Runner::parse_ast).  *)
(*                                                                         *)
(* The graph engine (stdlib/workflow, node, action) is specified apart, by *)
(* RunSpec: the delegate is told that parsing starts, the script's         *)
(* variables are registered and its workflow(...) statement is evaluated,  *)
(* the variables are realized, then Workflow::run runs the first node,     *)
(* whose actions build their command, spawn subprocesses and call setters, *)
(* and whose Next is called last; the process of the run command then      *)
(* ends.                                                                   *)
(*                                                                         *)
(* SnapshotSpec takes snapshots of a ParseContext while it changes.        *)
(* CallSpec applies the functions of the library that depend on their      *)
(* arguments only: format, validate_cli_flag, the call of a NextStub and   *)
(* Tool::cmd over a file system.  PumpSpec follows one Action::run from    *)
(* spawn to its ActionCtx, step by step with the child that writes to the  *)
(* two pipes; PumpFairSpec adds that child and reader run when they can.   *)
(***************************************************************************)
EXTENDS Integers, Sequences, FiniteSets, TLC

(* ---- bounds of the model ---- *)

\* longest list of trailing workflow arguments
MaxArgs == 4

\* the strings that may appear in the trailing workflow arguments
ArgTokens == {"--foo", "--bar", "y"}

\* names bound by `variable(name = ...)` in a script
Names == {"foo"}

\* identifiers generated for VariableRefs
Identifiers == {"1", "2"}

\* names of actions that read and write variables
Actors == {"a", "b"}

\* values written by actions
WriteValues == {"w"}

\* the environment variable names a script refers to
EnvKeys == {"FOO_ENV"}

(* ---- Option, Result ---- *)

None == [some |-> FALSE]
Some(x) == [some |-> TRUE, v |-> x]

Ok(x) == [ok |-> TRUE, value |-> x]
Err(e) == [ok |-> FALSE, err |-> e]

(* ---- VariableScope, ValueUpdatedBy, ValueContext ---- *)

Global == [kind |-> "Global"]
Restricted(allowed) == [kind |-> "Restricted", allowed |-> allowed]

CLIFlag(f) == [kind |-> "CLIFlag", arg |-> f]
EnvironmentVariable(k) == [kind |-> "EnvironmentVariable", arg |-> k]
Action(n) == [kind |-> "Action", arg |-> n]
DefaultValue == [kind |-> "DefaultValue"]

ValueContext(value, updated_by) == [value |-> value, updated_by |-> updated_by]

(* ---- the state ---- *)

VARIABLES
  extra,     \* what the evaluator's `extra` slot holds
  environ,   \* the process environment
  vars,      \* ParseContext.vars : name -> Variable
  store,     \* runner::VariableStore.vars : identifier -> VariableEntry
  last,      \* the most recent call: its inputs, its result, the map before it
  script,    \* the arguments of the script's `main = workflow(...)` statement
  main,      \* the value bound to `main`: what workflow(...) returned
  pc,        \* where the run command stands: parse, Workflow::run, Action::run
  last_ctx,  \* Node::run's last_ctx
  trace,     \* what has been run, spawned and called back so far, in order
  node_res,  \* what Node::run returned
  result,    \* what Workflow::run returned
  callbacks, \* the ParseDelegate callbacks received so far, in order
  snapshots, \* the ParseContextSnapshots taken so far, in order
  call,      \* a call of a function of the library: its name and arguments
  ret,       \* what the call returned, once it has
  outcome,   \* how the run command ended: its result, what main printed, the exit code
  pump       \* Action::run between spawn and wait: the child, its pipes, the reader

\* the variables of the graph engine
engine == <<script, main, pc, last_ctx, trace, node_res, result>>

\* what is kept beside the program's own state
aux == <<callbacks, snapshots, call, ret>>

\* the process of the run command and the child of an action
os == <<outcome, pump>>

state == <<extra, environ, vars, store, last, engine, aux, os>>

(* ---- process environment ---- *)

EnvUnset == [set |-> FALSE]
EnvString(s) == [set |-> TRUE, unicode |-> TRUE, val |-> s]
EnvNotUnicode == [set |-> TRUE, unicode |-> FALSE]

env_var(key) ==
  IF key \notin DOMAIN environ THEN Err("NotPresent")
  ELSE IF ~environ[key].set THEN Err("NotPresent")
  ELSE IF ~environ[key].unicode THEN Err("NotUnicode")
  ELSE Ok(environ[key].val)

(* ---- Variable ---- *)

Variable(name, default, env, cli_flag, readers, writers) ==
  [name |-> name, env |-> env, cli_flag |-> cli_flag,
   readers |-> readers, writers |-> writers,
   value_ctx |-> IF default.some THEN Some(ValueContext(default.v, DefaultValue))
                 ELSE None]

access_allowed(scope, entry) ==
  IF scope.kind = "Global" THEN TRUE
  ELSE \E i \in 1..Len(scope.allowed) : scope.allowed[i] = entry

\* slip: a missing value read as the empty string (unwrap_or_default)
read_value_unchecked_or_default(self) ==
  IF self.value_ctx.some THEN Ok(self.value_ctx.v.value) ELSE Ok("")

read_value_unchecked(self) ==
  IF self.value_ctx.some THEN Ok(self.value_ctx.v.value)
  ELSE Err("NoDefaultValueSet")

\* slip: the read is checked against the writers scope
read_value_checks_writers(self, reader) ==
  IF access_allowed(self.writers, reader) THEN read_value_unchecked(self)
  ELSE Err("ReadNotAllowed")

read_value(self, reader) ==
  IF access_allowed(self.readers, reader) THEN read_value_unchecked(self)
  ELSE Err("ReadNotAllowed")

\* slip: a variable that had a value keeps the provenance of the old one
write_value_unchecked_keeps_provenance(self, value, updated_by) ==
  [self EXCEPT !.value_ctx =
     Some(ValueContext(value, IF @.some THEN @.v.updated_by ELSE updated_by))]

write_value_unchecked(self, value, updated_by) ==
  [self EXCEPT !.value_ctx = Some(ValueContext(value, updated_by))]

\* slip: the value is stored before the scope is checked
write_value_unguarded(self, value, writer) ==
  [res |-> IF access_allowed(self.writers, writer) THEN Ok("") ELSE Err("WriteNotAllowed"),
   var |-> write_value_unchecked(self, value, Action(writer))]

\* the result and the variable after the call
write_value(self, value, writer) ==
  IF access_allowed(self.writers, writer)
  THEN [res |-> Ok(""), var |-> write_value_unchecked(self, value, Action(writer))]
  ELSE [res |-> Err("WriteNotAllowed"), var |-> self]

\* slip: a flag with nothing after it yields the empty string
RECURSIVE find_cli_flag_value_or_default(_, _)
find_cli_flag_value_or_default(flag, workflow_args) ==
  IF workflow_args = <<>> THEN None
  ELSE IF Head(workflow_args) = flag
       THEN (IF Len(workflow_args) >= 2 THEN Some(workflow_args[2]) ELSE Some(""))
       ELSE find_cli_flag_value_or_default(flag, Tail(workflow_args))

RECURSIVE find_cli_flag_value(_, _)
find_cli_flag_value(flag, workflow_args) ==
  IF workflow_args = <<>> THEN None
  ELSE IF Head(workflow_args) = flag
       THEN (IF Len(workflow_args) >= 2 THEN Some(workflow_args[2]) ELSE None)
       ELSE find_cli_flag_value(flag, Tail(workflow_args))

try_update_value_from_cli_flag(self, args) ==
  IF self.cli_flag.some
  THEN LET value == find_cli_flag_value(self.cli_flag.v, args) IN
       IF value.some
       THEN [res |-> Ok(""),
             var |-> write_value_unchecked(self, value.v, CLIFlag(self.cli_flag.v))]
       ELSE [res |-> Err("is not in args"), var |-> self]
  ELSE [res |-> Err("no cli_flag set for this variable"), var |-> self]

\* slip: the name of the environment variable is stored, not its value
try_update_value_from_env_stores_key(self) ==
  IF self.env.some
  THEN LET val == env_var(self.env.v) IN
       IF val.ok
       THEN [res |-> Ok(""),
             var |-> write_value_unchecked(self, self.env.v, EnvironmentVariable(self.env.v))]
       ELSE [res |-> Err("has no associated environment variable"), var |-> self]
  ELSE [res |-> Err("no env set for this variable"), var |-> self]

\* slip: an unset environment variable is read as the empty string
try_update_value_from_env_or_default(self) ==
  IF self.env.some
  THEN LET val == env_var(self.env.v) IN
       [res |-> Ok(""),
        var |-> write_value_unchecked(self, IF val.ok THEN val.value ELSE "",
                                      EnvironmentVariable(self.env.v))]
  ELSE [res |-> Err("no env set for this variable"), var |-> self]

try_update_value_from_env(self) ==
  IF self.env.some
  THEN LET val == env_var(self.env.v) IN
       IF val.ok
       THEN [res |-> Ok(""),
             var |-> write_value_unchecked(self, val.value, EnvironmentVariable(self.env.v))]
       ELSE [res |-> Err("has no associated environment variable"), var |-> self]
  ELSE [res |-> Err("no env set for this variable"), var |-> self]

\* slip: the value is left out of the copy
FrozenVariable_without_value(item) ==
  [name |-> item.name, env |-> item.env, cli_flag |-> item.cli_flag,
   readers |-> item.readers, writers |-> item.writers, value |-> None]

FrozenVariable(item) ==
  [name |-> item.name, env |-> item.env, cli_flag |-> item.cli_flag,
   readers |-> item.readers, writers |-> item.writers, value |-> item.value_ctx]

(* ---- VariableEntry: the entry type of runner::VariableStore ---- *)

VariableEntry(default, cli_flag, env, readers, writers) ==
  [env |-> env, cli_flag |-> cli_flag, readers |-> readers, writers |-> writers,
   value_ctx |-> IF default.some THEN Some(ValueContext(default.v, DefaultValue))
                 ELSE None]

VariableEntry_value(self) ==
  IF self.value_ctx.some THEN Some(self.value_ctx.v.value) ELSE None

VariableEntry_update_value(self, value, updated_by) ==
  [self EXCEPT !.value_ctx = Some(ValueContext(value, updated_by))]

VariableEntry_try_update_value_from_cli_flag(self, args) ==
  try_update_value_from_cli_flag(self, args)

VariableEntry_try_update_value_from_env(self) ==
  try_update_value_from_env(self)

(* ---- inputs ---- *)

Defaults == {None, Some("")}
Envs == {None} \cup {Some(k) : k \in EnvKeys}
CliFlags == {None, Some("--foo")}
\* <<readers, writers>> as declared together
Scopes == {Global, Restricted(<<"a">>)} \X {Global, Restricted(<<"b">>)}
EnvStates == {EnvUnset, EnvString("e"), EnvNotUnicode}
UpdatedBys == {Action("")}

ArgLists == UNION {[1..n -> ArgTokens] : n \in 0..MaxArgs}

Variables ==
  {Variable(n, d, e, c, s[1], s[2]) :
     n \in Names, d \in Defaults, e \in Envs, c \in CliFlags, s \in Scopes}

\* the entries runner::VariableStore's tests register
VariableEntries ==
  {VariableEntry(None, Some("--foo"), None, Global, Global),
   VariableEntry(Some(""), Some("--bar"), Some("FOO_ENV"), Global, Global)}

EmptyMap == [k \in {} |-> None]

NoProvenance == [kind |-> "None"]

Call(op, key, who, value, by, args, res, pre) ==
  [op |-> op, key |-> key, who |-> who, value |-> value, by |-> by,
   args |-> args, res |-> res, pre |-> pre]

\* no call is in progress and no result is held
Idle == Call("idle", "", "", "", NoProvenance, <<>>, Ok(""), EmptyMap)

(* ---- script values: every value carries its get_type() ---- *)

ACTION_TYPE == "action"
NODE_TYPE == "node"
SETTER_TYPE == "setter"
NEXT_TYPE == "next"
TOOL_TYPE == "tool"

NoneValue == [type |-> "NoneType"]
Str(s) == [type |-> "string", str |-> s]
IntValue(i) == [type |-> "int", int |-> i]
ToolValue == [type |-> TOOL_TYPE]
NextValue == [type |-> NEXT_TYPE]

VALUE_FORMATTER_TYPE == "value_formatter"
VARIABLE_REF_TYPE == "variable_ref"

\* the value variable(...) returns: a reference to the registered variable
VariableRef(identifier) == [type |-> VARIABLE_REF_TYPE, identifier |-> identifier]

Digits == <<"0", "1", "2", "3", "4", "5", "6", "7", "8", "9">>

\* Value::to_str of the values a script passes to format
to_str(v) ==
  CASE v.type = "string" -> v.str
    [] v.type = "int" -> Digits[v.int + 1]
    [] v.type = "NoneType" -> "None"

(* ---- LateBoundString, ValueFormatter ---- *)

with_value(string) == [one_of |-> "Value", string |-> string]
with_identifier(identifier) == [one_of |-> "Identifier", identifier |-> identifier]
with_value_formatter(formatter) == [one_of |-> "ValueFormatter", formatter |-> formatter]

\* one turn of the loop of format_impl: the LateBoundString made of an argument
late_bound(a) ==
  IF a.type = VALUE_FORMATTER_TYPE THEN with_value_formatter(a)
  ELSE IF a.type = VARIABLE_REF_TYPE THEN with_identifier(a.identifier)
  ELSE with_value(to_str(a))

\* format(fmt_str, *args)
format_impl(fmt_str, args) ==
  [type |-> VALUE_FORMATTER_TYPE, fmt_str |-> fmt_str,
   values |-> [i \in 1..Len(args) |-> late_bound(args[i])]]

\* setter(implementation = <function>, variable = <the VariableRef with this identifier>)
setter_impl(variable) == [type |-> SETTER_TYPE, variable |-> variable]

variable_identifier(setter) == setter.variable

action_impl(tool, args, setters) ==
  IF tool.type # TOOL_TYPE
  THEN Err("A tool must be passed as the tool in an action")
  ELSE Ok([type |-> ACTION_TYPE, tool |-> tool, args |-> args, setters |-> setters])

next_or_none(next) == IF next.some THEN next.v ELSE NoneValue

node_impl(name, action, next) ==
  IF action.type # ACTION_TYPE
  THEN Err("An action must be passed as the action in a node")
  ELSE IF next.some /\ next.v.type # NEXT_TYPE
  THEN Err("A Next must be passed as the next value in a node")
  ELSE Ok([type |-> NODE_TYPE, name |-> name, actions |-> <<action>>,
           next |-> next_or_none(next)])

sequence_impl(name, actions, next) ==
  IF \E i \in 1..Len(actions) : actions[i].type # ACTION_TYPE
  THEN Err("All actions in a sequence must be action types")
  ELSE Ok([type |-> NODE_TYPE, name |-> name, actions |-> actions,
           next |-> next_or_none(next)])

(* ---- Workflow ---- *)

\* slip: a node whose name is already in the graph replaces the earlier one
RECURSIVE insert_nodes_last_wins(_, _)
insert_nodes_last_wins(graph, nodes) ==
  IF nodes = <<>> THEN Ok(graph)
  ELSE LET node == Head(nodes) IN
       IF node.type # NODE_TYPE THEN Err("graph can only contain node values")
       ELSE IF \E i \in 1..Len(graph) : graph[i].name = node.name
       THEN insert_nodes_last_wins(
              [i \in 1..Len(graph) |-> IF graph[i].name = node.name THEN node ELSE graph[i]],
              Tail(nodes))
       ELSE insert_nodes_last_wins(Append(graph, node), Tail(nodes))

\* the loop of workflow_impl: graph is the SmallMap so far, in insertion order
RECURSIVE insert_nodes(_, _)
insert_nodes(graph, nodes) ==
  IF nodes = <<>> THEN Ok(graph)
  ELSE LET node == Head(nodes) IN
       IF node.type # NODE_TYPE THEN Err("graph can only contain node values")
       ELSE IF \E i \in 1..Len(graph) : graph[i].name = node.name
       THEN Err("nodes must have unique names")
       ELSE insert_nodes(Append(graph, node), Tail(nodes))

workflow_impl(entrypoint, nodes) ==
  LET graph == insert_nodes(<<>>, nodes) IN
  IF graph.ok THEN Ok([entrypoint |-> entrypoint, graph |-> graph.value])
  ELSE graph

first_node_from_single_node_graph(self) == Ok(self.graph[1])

node_with_name(self, name) ==
  IF \E i \in 1..Len(self.graph) : self.graph[i].name = name
  THEN Ok(self.graph[CHOOSE i \in 1..Len(self.graph) : self.graph[i].name = name])
  ELSE Err("No node with name: '" \o name \o "'")

\* slip: the entrypoint is looked up whatever the size of the graph
first_node_by_entrypoint(self) ==
  IF Len(self.graph) = 0 THEN Err("Graph contains no nodes")
  ELSE node_with_name(self, self.entrypoint)

first_node(self) ==
  IF Len(self.graph) = 0 THEN Err("Graph contains no nodes")
  ELSE IF Len(self.graph) = 1 THEN first_node_from_single_node_graph(self)
  ELSE node_with_name(self, self.entrypoint)

(* ---- ActionCtx ---- *)

\* ExitStatus: code() and signal()
Exited(code) == [code |-> Some(code), signal |-> None]
Signaled(sig) == [code |-> None, signal |-> Some(sig)]

ActionCtx_new(status) ==
  [exit_code |-> IF status.code.some THEN status.code.v
                 ELSE IF status.signal.some THEN status.signal.v
                 ELSE -1]

(* ---- inputs of the graph engine ---- *)

\* most values in a graph list
MaxNodes == 2

NodeNames == {"", "a", "b"}
Entrypoints == {None, Some("a")}
SpawnResults == {Ok(""), Err("No such file or directory")}
\* what a Next callback may name: a node of the graph or none of them
NextNames == {"b", "c"}
Statuses == {Exited(0), Exited(1), Signaled(9)}

\* what tool.real_path may give for the tool of an action
RealPaths == {Ok("/workflows/tool"), Err("not found")}

\* args = [v, format("--{}", v), "literal"], v being the variable "2"
PlainAction ==
  action_impl(ToolValue,
              <<VariableRef("2"), format_impl("--{}", <<VariableRef("2")>>), Str("literal")>>,
              <<>>).value
OneSetterAction == action_impl(ToolValue, <<Str("literal")>>, <<setter_impl("2")>>).value
TwoSetterAction ==
  action_impl(ToolValue, <<>>, <<setter_impl("1"), setter_impl("2")>>).value

Nodes ==
  UNION {{sequence_impl(name, <<OneSetterAction, PlainAction>>, Some(NextValue)).value,
          node_impl(name, TwoSetterAction, None).value,
          sequence_impl(name, <<>>, None).value,
          sequence_impl(name, <<PlainAction>>, Some(Str("b"))).value} : name \in NodeNames}

\* what a script may put in graph = [...]
GraphValues == Nodes \cup {IntValue(1)}

List(items) == [type |-> "list", items |-> items]

\* graph = [...] or graph = <one value>
Graphs ==
  {List(items) : items \in UNION {[1..n -> GraphValues] : n \in 0..MaxNodes}}
    \cup GraphValues

Scripts == [entrypoint : Entrypoints, graph : Graphs]

\* a script without a workflow(...) statement
NoScript == [entrypoint |-> None, graph |-> List(<<>>)]

\* what eval_function gives for a setter implementation and for a Next
SetterResults == {Ok(Str("w")), Ok(NoneValue), Ok(IntValue(1)), Err("error in implementation")}
NextResults == {Ok(Str(n)) : n \in NextNames}
                 \cup {Ok(NoneValue), Ok(IntValue(1)), Err("error in implementation")}

\* the variables the script declares, as on_variable registers them: "1" is
\* writable by the action "deploy" only, which is not the name of anything that
\* runs; "2" has no default and may be given on the command line
ParsedStore ==
  ("1" :> VariableEntry(Some(""), None, None, Global, Restricted(<<"deploy">>)))
  @@ ("2" :> VariableEntry(None, Some("--foo"), None, Global, Global))

\* the identifiers of the script's variable(...) statements, in statement order
ScriptVariables == <<"1", "2">>

\* the trailing arguments of `workflow run <file> <args>`
RunArgLists == {<<>>, <<"--foo", "w">>, <<"--foo", "y">>}

\* a position in the run: the node and the indices of the action and the setter
\* at hand, and the ActionCtx of the action whose setters are being called
At(at, node, action, setter, ctx) ==
  [at |-> at, node |-> node, action |-> action, setter |-> setter, ctx |-> ctx]

AtParse == At("start", None, 0, 0, None)

(* ---- ParseContext ---- *)

snapshot_variables == {FrozenVariable(vars[k]) : k \in DOMAIN vars}

\* the closure realize_variables hands to with_variable_mut
realize_closure(v, workflow_args) ==
  LET cli == try_update_value_from_cli_flag(v, workflow_args) IN
  IF cli.res.ok THEN cli.var
  ELSE LET env == try_update_value_from_env(v) IN
       IF env.res.ok THEN env.var ELSE v

ParseContext_realize_variables(variables, workflow_args) ==
  [k \in DOMAIN vars |->
     IF \E frozen_var \in variables : frozen_var.name = k
     THEN realize_closure(vars[k], workflow_args)
     ELSE vars[k]]

\* slip: the value insert() returns is ignored
add_variable_impl_ignores_previous(var) ==
  [map |-> (var.name :> var) @@ vars, res |-> Ok("")]

\* the map after the insert, and the result
add_variable_impl(var) ==
  [map |-> (var.name :> var) @@ vars,
   res |-> IF var.name \in DOMAIN vars THEN Err("VariableAlreadyExists") ELSE Ok("")]

add_variable(var) ==
  /\ extra = "ParseContext"
  /\ last = Idle
  /\ LET r == add_variable_impl(var) IN
     /\ vars' = r.map
     /\ last' = Call("add_variable", var.name, "", "", NoProvenance, <<>>, r.res, vars)
  /\ UNCHANGED <<extra, environ, store, engine>>
  /\ UNCHANGED aux
  /\ UNCHANGED os

update_from_environment(workflow_args) ==
  /\ extra = "ParseContext"
  /\ last = Idle
  /\ vars' = ParseContext_realize_variables(snapshot_variables, workflow_args)
  /\ last' = Call("update_from_environment", "", "", "", NoProvenance, workflow_args, Ok(""), vars)
  /\ UNCHANGED <<extra, environ, store, engine>>
  /\ UNCHANGED aux
  /\ UNCHANGED os

\* with_variable(name, |v| v.read_value(reader))
with_variable(name, reader) ==
  /\ extra = "ParseContext"
  /\ last = Idle
  /\ last' = Call("with_variable", name, reader, "", NoProvenance, <<>>,
                  IF name \in DOMAIN vars THEN read_value(vars[name], reader)
                  ELSE Err("UnknownVariable"),
                  vars)
  /\ UNCHANGED <<extra, environ, vars, store, engine>>
  /\ UNCHANGED aux
  /\ UNCHANGED os

\* with_variable_mut(name, |v| v.write_value(value, writer))
with_variable_mut(name, value, writer) ==
  /\ extra = "ParseContext"
  /\ last = Idle
  /\ IF name \in DOMAIN vars
     THEN LET w == write_value(vars[name], value, writer) IN
          /\ vars' = [vars EXCEPT ![name] = w.var]
          /\ last' = Call("with_variable_mut", name, writer, value, NoProvenance, <<>>, w.res, vars)
     ELSE /\ vars' = vars
          /\ last' = Call("with_variable_mut", name, writer, value, NoProvenance, <<>>,
                          Err("UnknownVariable"), vars)
  /\ UNCHANGED <<extra, environ, store, engine>>
  /\ UNCHANGED aux
  /\ UNCHANGED os

(* ---- runner::VariableStore ---- *)

register_variable(identifier, var) ==
  /\ extra = "ParseDelegateHolder"
  /\ last = Idle
  /\ store' = (identifier :> var) @@ store
  /\ last' = Call("register_variable", identifier, "", "", NoProvenance, <<>>, Ok(""), store)
  /\ UNCHANGED <<extra, environ, vars, engine>>
  /\ UNCHANGED aux
  /\ UNCHANGED os

get_variable_value_impl(identifier) ==
  IF identifier \in DOMAIN store THEN VariableEntry_value(store[identifier]) ELSE None

get_variable_value(identifier) ==
  /\ extra = "ParseDelegateHolder"
  /\ last = Idle
  /\ last' = Call("get_variable_value", identifier, "", "", NoProvenance, <<>>,
                  get_variable_value_impl(identifier), store)
  /\ UNCHANGED <<extra, environ, vars, store, engine>>
  /\ UNCHANGED aux
  /\ UNCHANGED os

\* slip: an unknown identifier gets a fresh entry (entry().or_default())
update_variable_value_impl_upsert(identifier, value, updated_by) ==
  IF identifier \in DOMAIN store
  THEN [store EXCEPT ![identifier] = VariableEntry_update_value(@, value, updated_by)]
  ELSE (identifier :>
          VariableEntry_update_value(VariableEntry(None, None, None, Global, Global),
                                     value, updated_by)) @@ store

update_variable_value_impl(identifier, value, updated_by) ==
  IF identifier \in DOMAIN store
  THEN [store EXCEPT ![identifier] = VariableEntry_update_value(@, value, updated_by)]
  ELSE store

update_variable_value(identifier, value, updated_by) ==
  /\ extra = "ParseDelegateHolder"
  /\ last = Idle
  /\ store' = update_variable_value_impl(identifier, value, updated_by)
  /\ last' = Call("update_variable_value", identifier, "", value, updated_by, <<>>, Ok(""), store)
  /\ UNCHANGED <<extra, environ, vars, engine>>
  /\ UNCHANGED aux
  /\ UNCHANGED os

\* slip: the environment is consulted before the command line
realize_entry_env_first(var, workflow_args) ==
  LET env == VariableEntry_try_update_value_from_env(var) IN
  IF env.res.ok THEN env.var
  ELSE LET cli == VariableEntry_try_update_value_from_cli_flag(var, workflow_args) IN
       IF cli.res.ok THEN cli.var ELSE var

\* the body of the loop over vars.values_mut()
realize_entry(var, workflow_args) ==
  LET cli == VariableEntry_try_update_value_from_cli_flag(var, workflow_args) IN
  IF cli.res.ok THEN cli.var
  ELSE LET env == VariableEntry_try_update_value_from_env(var) IN
       IF env.res.ok THEN env.var ELSE var

VariableStore_realize_variables(workflow_args) ==
  /\ extra = "ParseDelegateHolder"
  /\ last = Idle
  /\ store' = [k \in DOMAIN store |-> realize_entry(store[k], workflow_args)]
  /\ last' = Call("realize_variables", "", "", "", NoProvenance, workflow_args, Ok(""), store)
  /\ UNCHANGED <<extra, environ, vars, engine>>
  /\ UNCHANGED aux
  /\ UNCHANGED os

(* ---- the caller ---- *)

\* the caller has looked at the result of the call and drops it
drop_result ==
  /\ last # Idle
  /\ last' = Idle
  /\ UNCHANGED <<extra, environ, vars, store, engine>>
  /\ UNCHANGED aux
  /\ UNCHANGED os

(* ---- VariableResolver ---- *)

UnknownVariable(id) == "Unknown variable with id '" \o id \o "'"

\* the resolvers: a HashMap<&str, &str>, and the WorkflowDelegate over its store
HashMap(map) == [impl |-> "HashMap", map |-> map]
WorkflowDelegate(variable_store) ==
  [impl |-> "WorkflowDelegate", variable_store |-> variable_store]

HashMap_resolve(self, identifier) ==
  IF identifier \in DOMAIN self.map
  THEN Ok(self.map[identifier])
  ELSE Err(UnknownVariable(identifier))

\* slip: the value is the one the variable had when parsing ended
WorkflowDelegate_resolve_as_parsed(self, identifier) ==
  LET parsed == {i \in 1..Len(callbacks) : callbacks[i].cb = "did_parse_workflow"}
      var == IF parsed = {} \/ identifier \notin DOMAIN ParsedStore
             THEN IF identifier \in DOMAIN self.variable_store
                  THEN Some(self.variable_store[identifier]) ELSE None
             ELSE Some(realize_entry(ParsedStore[identifier],
                                     callbacks[CHOOSE i \in parsed : TRUE].workflow_args))
      v == IF var.some THEN VariableEntry_value(var.v) ELSE None
  IN IF v.some THEN Ok(v.v) ELSE Err("No value for variable")

WorkflowDelegate_resolve(self, identifier) ==
  LET v == IF identifier \in DOMAIN self.variable_store
           THEN VariableEntry_value(self.variable_store[identifier])
           ELSE None
  IN IF v.some THEN Ok(v.v) ELSE Err("No value for variable")

resolve(resolver, identifier) ==
  IF resolver.impl = "HashMap"
  THEN HashMap_resolve(resolver, identifier)
  ELSE WorkflowDelegate_resolve(resolver, identifier)

(* ---- ValueFormatter::fmt, LateBoundString::get_value ---- *)

\* the call has panicked: no value is returned to any caller
Panic(msg) == [ok |-> FALSE, err |-> msg, panic |-> TRUE]
Panicked(res) == "panic" \in DOMAIN res

\* str::find: the index of the first match of pat in s
find(s, pat) ==
  LET hits == {i \in 1..(Len(s) - Len(pat) + 1) : SubSeq(s, i, i + Len(pat) - 1) = pat}
  IN IF hits = {} THEN None
     ELSE Some(CHOOSE i \in hits : \A j \in hits : i <= j)

\* s.replacen(pat, to, 1): the first match of pat replaced by to
replacen(s, pat, to) ==
  LET at == find(s, pat) IN
  IF ~at.some THEN s
  ELSE SubSeq(s, 1, at.v - 1) \o to \o SubSeq(s, at.v + Len(pat), Len(s))

RECURSIVE fmt_values(_, _, _)
RECURSIVE get_value(_, _)

\* the loop of ValueFormatter::fmt over what is left of self.values, fmt_str
\* being the string as rewritten so far
fmt_values(fmt_str, values, resolver) ==
  IF Len(values) = 0 THEN Ok(fmt_str)
  ELSE LET v == get_value(Head(values), resolver) IN
       IF ~v.ok THEN v
       ELSE LET t == replacen(fmt_str, "{}", v.value) IN
            IF t = fmt_str THEN Panic("more args than placeholders")
            ELSE fmt_values(t, Tail(values), resolver)

\* ValueFormatter::fmt
fmt(self, resolver) == fmt_values(self.fmt_str, self.values, resolver)

get_value(self, resolver) ==
  CASE self.one_of = "Value" -> Ok(self.string)
    [] self.one_of = "Identifier" -> resolve(resolver, self.identifier)
    [] self.one_of = "ValueFormatter" -> fmt(self.formatter, resolver)

(* ---- Action::arg_list, Action::command ---- *)

\* the string of an argument of an action: a literal is itself, a variable
\* reference is the variable's current value, a formatter is formatted
string_from_value(v, resolver) == get_value(late_bound(v), resolver)

RECURSIVE arg_list_push(_, _, _)

\* slip: each resolved string goes to the front of the list
arg_list_push_front(args, args_list, resolver) ==
  IF Len(args) = 0 THEN Ok(args_list)
  ELSE LET r == string_from_value(Head(args), resolver) IN
       IF ~r.ok THEN r
       ELSE arg_list_push(Tail(args), <<r.value>> \o args_list, resolver)

\* Action::arg_list: the loop over what is left of self.args
arg_list_push(args, args_list, resolver) ==
  IF Len(args) = 0 THEN Ok(args_list)
  ELSE LET r == string_from_value(Head(args), resolver) IN
       IF ~r.ok THEN r
       ELSE arg_list_push(Tail(args), Append(args_list, r.value), resolver)

arg_list(self, resolver) == arg_list_push(self.args, <<>>, resolver)

\* slip: an argument list that fails to resolve is left out of the command
command_without_args(self, resolver, real_path) ==
  IF ~real_path.ok THEN real_path
  ELSE LET args == arg_list(self, resolver) IN
       Ok([program |-> real_path.value,
           args |-> IF args.ok THEN args.value ELSE <<>>])

\* Action::command; real_path is what tool.real_path(resolver, working_dir) gives
command(self, resolver, real_path) ==
  IF ~real_path.ok THEN real_path
  ELSE LET args == arg_list(self, resolver) IN
       IF ~args.ok THEN args
       ELSE Ok([program |-> real_path.value, args |-> args.value])

(* ---- the run command: parse, then Workflow::run ---- *)

\* Runner::parse_ast up to eval_module: the delegate goes into eval.extra and
\* is told that parsing starts
will_parse_workflow ==
  /\ pc.at = "start"
  /\ callbacks' = Append(callbacks, [cb |-> "will_parse_workflow"])
  /\ pc' = At("eval", None, 0, 0, None)
  /\ UNCHANGED <<extra, environ, vars, store, last>>
  /\ UNCHANGED <<script, main, last_ctx, trace, node_res, result>>
  /\ UNCHANGED <<snapshots, call, ret>>
  /\ UNCHANGED os

\* how many of the script's variable(...) statements have been evaluated
Declared == Cardinality({i \in 1..Len(callbacks) : callbacks[i].cb = "on_variable"})

\* WorkflowDelegate::on_variable, called for the script's next variable(...)
on_variable ==
  /\ pc.at = "eval"
  /\ Declared < Len(ScriptVariables)
  /\ LET identifier == ScriptVariables[Declared + 1] IN
     /\ store' = (identifier :> ParsedStore[identifier]) @@ store
     /\ callbacks' = Append(callbacks, [cb |-> "on_variable", identifier |-> identifier])
  /\ UNCHANGED <<extra, environ, vars, last>>
  /\ UNCHANGED engine
  /\ UNCHANGED <<snapshots, call, ret>>
  /\ UNCHANGED os

\* slip: the run goes on from eval_module without did_parse_workflow
evaluated_skips_did_parse(res) == IF res.ok THEN "parsed" ELSE "aborted"

\* Runner::parse_ast: where eval_module(..)? leads
evaluated(res) == IF res.ok THEN "evaluated" ELSE "aborted"

\* the script's statement `main = workflow(entrypoint = ..., graph = ...)`, the
\* last one of the module
workflow ==
  /\ pc.at = "eval"
  /\ Declared = Len(ScriptVariables)
  /\ LET res == workflow_impl(IF script.entrypoint.some THEN script.entrypoint.v ELSE "",
                              IF script.graph.type = "list" THEN script.graph.items
                              ELSE <<script.graph>>) IN
     /\ main' = Some(res)
     /\ pc' = At(evaluated(res), None, 0, 0, None)
  /\ UNCHANGED <<extra, environ, vars, store, last>>
  /\ UNCHANGED aux
  /\ UNCHANGED os
  /\ UNCHANGED <<script, last_ctx, trace, node_res, result>>

\* Runner::parse_ast after eval_module: WorkflowDelegate::did_parse_workflow
\* realizes the variables from the run's workflow_args
did_parse_workflow(workflow_args) ==
  /\ pc.at = "evaluated"
  /\ store' = [k \in DOMAIN store |-> realize_entry(store[k], workflow_args)]
  /\ callbacks' = Append(callbacks, [cb |-> "did_parse_workflow",
                                     workflow_args |-> workflow_args])
  /\ pc' = At("parsed", None, 0, 0, None)
  /\ UNCHANGED <<extra, environ, vars, last>>
  /\ UNCHANGED <<script, main, last_ctx, trace, node_res, result>>
  /\ UNCHANGED <<snapshots, call, ret>>
  /\ UNCHANGED os

\* Node::run returns res to Workflow::run, which returns: node.run(..)?; Ok(())
Workflow_run_returns(res) ==
  /\ node_res' = Some(res)
  /\ result' = Some(IF res.ok THEN Ok("") ELSE res)
  /\ pc' = At("done", None, 0, 0, None)

\* Workflow::run up to the first action of the first node
Workflow_run ==
  /\ pc.at = "parsed"
  /\ LET node == first_node(main.v.value) IN
     IF ~node.ok
     THEN /\ result' = Some(node)
          /\ pc' = At("done", None, 0, 0, None)
          /\ UNCHANGED <<trace, node_res>>
     ELSE /\ trace' = Append(trace, [ev |-> "run", node |-> node.value.name])
          /\ IF Len(node.value.actions) = 0
             THEN Workflow_run_returns(Err("TODO"))
             ELSE /\ pc' = At("spawn", Some(node.value), 1, 0, None)
                  /\ UNCHANGED <<node_res, result>>
  /\ UNCHANGED <<extra, environ, vars, store, last>>
  /\ UNCHANGED aux
  /\ UNCHANGED os
  /\ UNCHANGED <<script, main, last_ctx>>

\* Action::run of action i has returned res to Node::run
Returned(node, i, res) ==
  [ev |-> "returned", node |-> node.name, action |-> i, res |-> res]

\* slip: the error of an action is dropped and the loop goes on
Node_run_action_failed_goes_on(node, i, e) ==
  /\ last_ctx' = last_ctx
  /\ IF i < Len(node.actions)
     THEN /\ pc' = At("spawn", Some(node), i + 1, 0, None)
          /\ UNCHANGED <<node_res, result>>
     ELSE IF node.next.type = NEXT_TYPE
     THEN /\ pc' = At("next", Some(node), i, 0, None)
          /\ UNCHANGED <<node_res, result>>
     ELSE Workflow_run_returns(Ok(None))

\* Node::run: action.run(..)? has given the error e
Node_run_action_failed(node, i, e) ==
  /\ last_ctx' = last_ctx
  /\ Workflow_run_returns(e)

\* Node::run: action.run(..)? has given the ActionCtx ctx
Node_run_continues(node, i, ctx) ==
  /\ last_ctx' = Some(ctx)
  /\ IF i < Len(node.actions)
     THEN /\ pc' = At("spawn", Some(node), i + 1, 0, None)
          /\ UNCHANGED <<node_res, result>>
     ELSE IF node.next.type = NEXT_TYPE
     THEN /\ pc' = At("next", Some(node), i, 0, None)
          /\ UNCHANGED <<node_res, result>>
     ELSE Workflow_run_returns(Ok(None))

\* Action::run: self.command(..)? and spawn()?
Action_run_spawn(real_path, spawned) ==
  /\ pc.at = "spawn"
  /\ LET cmd == command(pc.node.v.actions[pc.action], WorkflowDelegate(store), real_path)
         built == [ev |-> "command", node |-> pc.node.v.name, action |-> pc.action,
                   real_path |-> real_path, variable_store |-> store, res |-> cmd]
         res == IF cmd.ok THEN spawned ELSE cmd
     IN
     IF res.ok
     THEN /\ trace' = trace \o <<built, [ev |-> "spawn", node |-> pc.node.v.name,
                                         action |-> pc.action]>>
          /\ pc' = [pc EXCEPT !.at = "wait"]
          /\ UNCHANGED <<last_ctx, node_res, result>>
     ELSE /\ trace' = trace \o <<built, Returned(pc.node.v, pc.action, res)>>
          /\ Node_run_action_failed(pc.node.v, pc.action, res)
  /\ UNCHANGED <<extra, environ, vars, store, last>>
  /\ UNCHANGED aux
  /\ UNCHANGED os
  /\ UNCHANGED <<script, main>>

\* Action::run: the output has been pumped, child.wait() gives status
Action_run_wait(status, utf8) ==
  /\ pc.at = "wait"
  /\ LET action == pc.node.v.actions[pc.action]
         needs_action_ctx == Len(action.setters) > 0
         ctx == ActionCtx_new(status)
         exit == [ev |-> "exit", node |-> pc.node.v.name, action |-> pc.action,
                  status |-> status]
     IN
     IF needs_action_ctx /\ ~utf8
     THEN LET e == Err("invalid utf-8 sequence") IN
          /\ trace' = trace \o <<exit, Returned(pc.node.v, pc.action, e)>>
          /\ Node_run_action_failed(pc.node.v, pc.action, e)
     ELSE IF needs_action_ctx
     THEN /\ trace' = Append(trace, exit)
          /\ pc' = [pc EXCEPT !.at = "setter", !.setter = 1, !.ctx = Some(ctx)]
          /\ UNCHANGED <<last_ctx, node_res, result>>
     ELSE /\ trace' = trace \o <<exit, Returned(pc.node.v, pc.action, Ok(ctx))>>
          /\ Node_run_continues(pc.node.v, pc.action, ctx)
  /\ UNCHANGED <<extra, environ, vars, store, last>>
  /\ UNCHANGED aux
  /\ UNCHANGED os
  /\ UNCHANGED <<script, main>>

\* the result and the store after the call
WorkflowDelegate_update(identifier, value) ==
  [res |-> Ok(""), store |-> update_variable_value_impl(identifier, value, Action(""))]

\* slip: a value that is neither a string nor None is skipped like None
setter_returned_any(res) ==
  IF ~res.ok THEN res
  ELSE IF res.value.type = "string" THEN Ok(Some(res.value.str))
  ELSE Ok(None)

\* Action::run: what the loop over the setters makes of the value the
\* implementation returned: Some(s) to update with, None to skip, or the error
setter_returned(res) ==
  IF ~res.ok THEN res
  ELSE IF res.value.type = "string" THEN Ok(Some(res.value.str))
  ELSE IF res.value.type # "NoneType" THEN Err("setter must return string or None")
  ELSE Ok(None)

\* Action::run: one turn of the loop over self.setters (all of them Setter
\* values); res is what eval_function gives for the setter's implementation
Action_run_setter(res) ==
  /\ pc.at = "setter"
  /\ LET action == pc.node.v.actions[pc.action]
         setter == action.setters[pc.setter]
         new == setter_returned(res)
         post == IF new.ok /\ new.value.some
                 THEN WorkflowDelegate_update(variable_identifier(setter), new.value.v).store
                 ELSE store
         called == [ev |-> "setter", node |-> pc.node.v.name, action |-> pc.action,
                    setter |-> pc.setter, ret |-> res, pre |-> store, post |-> post]
     IN
     /\ store' = post
     /\ IF ~new.ok
        THEN /\ trace' = trace \o <<called, Returned(pc.node.v, pc.action, new)>>
             /\ Node_run_action_failed(pc.node.v, pc.action, new)
        ELSE IF pc.setter < Len(action.setters)
        THEN /\ trace' = Append(trace, called)
             /\ pc' = [pc EXCEPT !.setter = @ + 1]
             /\ UNCHANGED <<last_ctx, node_res, result>>
        ELSE /\ trace' = trace \o <<called, Returned(pc.node.v, pc.action, Ok(pc.ctx.v))>>
             /\ Node_run_continues(pc.node.v, pc.action, pc.ctx.v)
  /\ UNCHANGED <<extra, environ, vars, last>>
  /\ UNCHANGED aux
  /\ UNCHANGED os
  /\ UNCHANGED <<script, main>>

\* slip: a value that is neither a string nor None ends the walk like None
next_returned_any(res) ==
  IF ~res.ok THEN res
  ELSE IF res.value.type = "string" THEN Ok(Some(res.value.str))
  ELSE Ok(None)

\* Node::run: what becomes of the value the Next's implementation returned
next_returned(res) ==
  IF ~res.ok THEN res
  ELSE IF res.value.type = "string" THEN Ok(Some(res.value.str))
  ELSE IF res.value.type # "NoneType" THEN Err("setter must return string or None")
  ELSE Ok(None)

\* Node::run: the node's Next has been called with the last ActionCtx
Node_run_next(res) ==
  /\ pc.at = "next"
  /\ trace' = Append(trace, [ev |-> "next", node |-> pc.node.v.name, ret |-> res])
  /\ Workflow_run_returns(next_returned(res))
  /\ UNCHANGED <<extra, environ, vars, store, last>>
  /\ UNCHANGED aux
  /\ UNCHANGED os
  /\ UNCHANGED <<script, main, last_ctx>>

\* RunArgs::run after parse_workflow(..).unwrap(): ran is what workflow.run
\* returned if `main` is bound, and `let _ =` drops it
RunArgs_run(ran) == Ok("")

\* main: an error of parse_and_run is printed, and main returns
main_returns(res) ==
  [res |-> res,
   printed |-> IF res.ok THEN None ELSE Some("ERROR: " \o res.err),
   exit_code |-> 0]

\* the process of the run command ends: parse_workflow(..).unwrap() panics on
\* a script that failed to evaluate, otherwise RunArgs::run returns to main
process_exits ==
  /\ pc.at \in {"done", "aborted"}
  /\ ~outcome.some
  /\ outcome' = Some(IF pc.at = "aborted"
                     THEN [res |-> Panic("called Result::unwrap() on an Err value"),
                           printed |-> None, exit_code |-> 101]
                     ELSE main_returns(RunArgs_run(result)))
  /\ UNCHANGED <<extra, environ, vars, store, last>>
  /\ UNCHANGED engine
  /\ UNCHANGED aux
  /\ UNCHANGED pump

(* ---- the specification ---- *)

\* no child has been spawned
NoPump == [at |-> "none"]

\* nothing of the graph engine has started
AuxInit ==
  /\ callbacks = <<>>
  /\ snapshots = <<>>
  /\ call = None
  /\ ret = None
  /\ outcome = None
  /\ pump = NoPump

EngineInit ==
  /\ main = None
  /\ pc = AtParse
  /\ last_ctx = None
  /\ trace = <<>>
  /\ node_res = None
  /\ result = None

Init ==
  /\ extra \in {"ParseContext", "ParseDelegateHolder"}
  /\ environ \in [EnvKeys -> EnvStates]
  /\ vars = EmptyMap
  /\ store = EmptyMap
  /\ last = Idle
  /\ script = NoScript
  /\ EngineInit
  /\ AuxInit

Next ==
  \/ \E var \in Variables : add_variable(var)
  \/ \E workflow_args \in ArgLists : update_from_environment(workflow_args)
  \/ \E name \in Names, reader \in Actors : with_variable(name, reader)
  \/ \E name \in Names, value \in WriteValues, writer \in Actors :
       with_variable_mut(name, value, writer)
  \/ \E identifier \in Identifiers, var \in VariableEntries :
       register_variable(identifier, var)
  \/ \E identifier \in Identifiers : get_variable_value(identifier)
  \/ \E identifier \in Identifiers, value \in WriteValues, updated_by \in UpdatedBys :
       update_variable_value(identifier, value, updated_by)
  \/ \E workflow_args \in ArgLists : VariableStore_realize_variables(workflow_args)
  \/ drop_result

Spec == Init /\ [][Next]_state

(* ---- the specification of a run ---- *)

\* `workflow run <file> <args>`
RunInit ==
  /\ extra = "ParseDelegateHolder"
  /\ environ = [k \in EnvKeys |-> EnvUnset]
  /\ vars = EmptyMap
  /\ store = EmptyMap
  /\ last = Idle
  /\ script \in Scripts
  /\ EngineInit
  /\ AuxInit

RunNext ==
  \/ will_parse_workflow
  \/ on_variable
  \/ workflow
  \/ \E workflow_args \in RunArgLists : did_parse_workflow(workflow_args)
  \/ Workflow_run
  \/ \E real_path \in RealPaths, spawned \in SpawnResults : Action_run_spawn(real_path, spawned)
  \/ \E status \in Statuses, utf8 \in BOOLEAN : Action_run_wait(status, utf8)
  \/ \E res \in SetterResults : Action_run_setter(res)
  \/ \E res \in NextResults : Node_run_next(res)
  \/ process_exits

RunSpec == RunInit /\ [][RunNext]_state


(* ---- the specification of snapshots of a ParseContext ---- *)

\* how many snapshots are taken of one context
MaxSnapshots == 3

\* the variables a script adds while snapshots are taken
SnapshotVariables == {Variable(n, d, None, None, Global, Global) : n \in Names, d \in Defaults}

\* ParseContext::snapshot; `taken` keeps the variables as they were at the call
snapshot ==
  /\ extra = "ParseContext"
  /\ last = Idle
  /\ Len(snapshots) < MaxSnapshots
  /\ snapshots' = Append(snapshots, [variables |-> snapshot_variables, taken |-> vars])
  /\ UNCHANGED <<extra, environ, vars, store, last, engine>>
  /\ UNCHANGED <<callbacks, call, ret>>
  /\ UNCHANGED os

SnapshotInit ==
  /\ extra = "ParseContext"
  /\ environ = [k \in EnvKeys |-> EnvUnset]
  /\ vars = EmptyMap
  /\ store = EmptyMap
  /\ last = Idle
  /\ script = NoScript
  /\ EngineInit
  /\ AuxInit

SnapshotNext ==
  \/ \E var \in SnapshotVariables : add_variable(var)
  \/ \E name \in Names, value \in WriteValues, writer \in Actors :
       with_variable_mut(name, value, writer)
  \/ drop_result
  \/ snapshot

SnapshotSpec == SnapshotInit /\ [][SnapshotNext]_state

(* ---- validate_cli_flag ---- *)

InvalidAttribute(attr, reason, value) ==
  [attr |-> attr, reason |-> reason, value |-> value]

contains(s, pat) == find(s, pat).some
starts_with(s, pat) == Len(s) >= Len(pat) /\ SubSeq(s, 1, Len(pat)) = pat

\* validate_cli_flag of variable(cli_flag = ...); flags are ASCII here, so that
\* len() counts characters
validate_cli_flag(cli_flag) ==
  IF ~cli_flag.some THEN Ok(None)
  ELSE LET flag == cli_flag.v IN
       IF Len(flag) = 0
       THEN Err(InvalidAttribute("cli_flag", "cannot be empty", flag))
       ELSE IF contains(flag, " ")
       THEN Err(InvalidAttribute("cli_flag", "cannot contain spaces", flag))
       ELSE IF Len(flag) = 2 /\ (~starts_with(flag, "-") \/ flag = "--")
       THEN Err(InvalidAttribute("cli_flag", "short flags must take the form -v", flag))
       ELSE IF Len(flag) > 2 /\ ~starts_with(flag, "--")
       THEN Err(InvalidAttribute("cli_flag", "long flags must take the form --value", flag))
       ELSE Ok(Some(flag))

(* ---- args.string, args.int, NextStub ---- *)

NEXT_STUB_TYPE == "next_stub"

\* args.string(default = ..., required = ...)
StringArg(default, required) ==
  [arg |-> "StringArg", required |-> IF required.some THEN required.v ELSE FALSE,
   default |-> IF default.some THEN default.v ELSE ""]

\* args.int(default = ..., required = ...)
IntArg(default, required) ==
  [arg |-> "IntArg", required |-> IF required.some THEN required.v ELSE FALSE,
   default |-> IF default.some THEN default.v ELSE 0]

StructValue_String(s) == [struct_value |-> "String", v |-> s]
StructValue_Int(i) == [struct_value |-> "Int", v |-> i]

StringArg_struct_value(self, value) ==
  IF value.some
  THEN IF value.v.type # "string" THEN Err("Should be a string type")
       ELSE Ok(StructValue_String(to_str(value.v)))
  ELSE Ok(StructValue_String(self.default))

IntArg_struct_value(self, value) ==
  IF value.some
  THEN IF value.v.type # "int" THEN Err("Should be an int type")
       ELSE Ok(StructValue_Int(value.v.int))
  ELSE Ok(StructValue_Int(self.default))

\* next(implementation = <function>, args = {...}): arg_spec is the dict as a
\* sequence of <<name, spec>> in insertion order
next_impl(arg_spec) == [type |-> NEXT_STUB_TYPE, arg_spec |-> arg_spec]

\* the named arguments of a call as a map, and their number
names_map(args) == [n \in {args[i][1] : i \in 1..Len(args)} |->
                      (CHOOSE i \in 1..Len(args) : args[i][1] = n)]
names_len(args) == Len(args)

RECURSIVE invoke_entries(_, _, _)

\* NextStub::invoke: the loop over what is left of me.arg_spec
invoke_entries(arg_spec, args, ctx_args) ==
  IF Len(arg_spec) = 0 THEN Ok(ctx_args)
  ELSE LET spec_name == Head(arg_spec)[1]
           spec_value == Head(arg_spec)[2]
           arg_value == IF spec_name \in DOMAIN names_map(args)
                        THEN Some(args[names_map(args)[spec_name]][2])
                        ELSE None
       IN
       IF spec_value.arg = "StringArg"
       THEN LET value == StringArg_struct_value(spec_value, arg_value) IN
            IF ~value.ok THEN Panic("TODO")
            ELSE invoke_entries(Tail(arg_spec), args,
                                (spec_name :> value.value) @@ ctx_args)
       ELSE Panic("FIX ME")

\* NextStub::invoke with the named arguments args, a sequence of <<name, value>>
invoke(me, args) ==
  LET ctx_args == invoke_entries(me.arg_spec, args, EmptyMap) IN
  IF ~ctx_args.ok THEN ctx_args
  ELSE IF names_len(args) # Cardinality(DOMAIN ctx_args.value)
  THEN Panic("too many args")
  ELSE Ok([type |-> NEXT_TYPE, args |-> ctx_args.value])

(* ---- Tool::cmd ---- *)

\* Path::is_absolute on unix
is_absolute(path) == starts_with(path, "/")

\* PathBuf::push: an absolute path replaces self, a relative one is appended
\* after a separator
push(self, path) ==
  IF is_absolute(path) THEN path
  ELSE IF Len(self) = 0 \/ SubSeq(self, Len(self), Len(self)) = "/" THEN self \o path
  ELSE self \o "/" \o path

\* validate_name of tool(name = ...)
validate_name(name) ==
  IF Len(name) = 0 THEN Err(InvalidAttribute("name", "cannot be empty", name))
  ELSE IF contains(name, " ")
  THEN Err(InvalidAttribute("name", "cannot contain spaces", name))
  ELSE Ok(name)

\* validate_path of tool(path = ...)
validate_path(path) ==
  IF Len(path) = 0 THEN Err(InvalidAttribute("path", "cannot be empty", path))
  ELSE IF contains(path, " ")
  THEN Err(InvalidAttribute("path", "cannot contain spaces", path))
  ELSE Ok(Some(path))

Tool_builtin(name) ==
  LET n == validate_name(name) IN
  IF ~n.ok THEN n
  ELSE Ok([name |-> n.value, builtin |-> TRUE, path |-> None, root |-> None])

Tool_path_based(name, path, root) ==
  LET n == validate_name(name) IN
  IF ~n.ok THEN n
  ELSE LET p == validate_path(path) IN
       IF ~p.ok THEN p
       ELSE Ok([name |-> n.value, builtin |-> FALSE, path |-> p.value, root |-> Some(root)])

\* the interpolators: NO_STRING_INTERP gives the string back, a &str gives
\* itself, and a ParseContext is taken by the result of its interpolate
NoStringInterp == [impl |-> "NoStringInterp"]
StrInterp(s) == [impl |-> "&str", s |-> s]
ParseContextInterp(res) == [impl |-> "ParseContext", res |-> res]

interpolate(self, s, reader) ==
  CASE self.impl = "NoStringInterp" -> Ok(s)
    [] self.impl = "&str" -> Ok(self.s)
    [] self.impl = "ParseContext" -> self.res

\* the files the process sees: the executable regular files, the regular files
\* without the execute permission, the directories of PATH and the current
\* directory
FileSystem(executable, plain, path_env, cwd) ==
  [executable |-> executable, plain |-> plain, path_env |-> path_env, cwd |-> cwd]

RECURSIVE which_in(_, _, _)
\* which::which without a separator in the name: the first directory of PATH
\* that holds an executable file of that name
which_in(fs, dirs, binary_name) ==
  IF Len(dirs) = 0 THEN Err("cannot find binary path")
  ELSE IF push(Head(dirs), binary_name) \in fs.executable
  THEN Ok(push(Head(dirs), binary_name))
  ELSE which_in(fs, Tail(dirs), binary_name)

\* which::which: a name with a separator is a path, taken from the current
\* directory if relative, and is the answer if it is an executable file
which(fs, binary_name) ==
  IF contains(binary_name, "/")
  THEN LET path == push(fs.cwd, binary_name) IN
       IF path \in fs.executable THEN Ok(path) ELSE Err("cannot find binary path")
  ELSE which_in(fs, fs.path_env, binary_name)

\* Result::ok
ok(res) == IF res.ok THEN Some(res.value) ELSE None

\* slip: the full path is returned without the lookup
Tool_cmd_unvalidated(self, interpolator, fs) ==
  IF self.builtin THEN ok(which(fs, self.name))
  ELSE LET path == IF self.path.some
                   THEN ok(interpolate(interpolator, self.path.v, self.name))
                   ELSE None
       IN
       IF ~path.some THEN None
       ELSE IF is_absolute(path.v) THEN Some(path.v)
       ELSE IF ~self.root.some THEN None
       ELSE Some(push(self.root.v, path.v))

\* Tool::cmd of the tool as tool(name, path) made it with the workflow's
\* directory as root
Tool_cmd(self, interpolator, fs) ==
  IF self.builtin THEN ok(which(fs, self.name))
  ELSE LET path == IF self.path.some
                   THEN ok(interpolate(interpolator, self.path.v, self.name))
                   ELSE None
       IN
       IF ~path.some THEN None
       ELSE IF is_absolute(path.v) THEN ok(which(fs, path.v))
       ELSE IF ~self.root.some THEN None
       ELSE ok(which(fs, push(self.root.v, path.v)))

\* the tool(name, path) of a script in workflow_dir, and its cmd
tool_cmd(name, path, workflow_dir, interpolator, fs) ==
  LET tool == Tool_path_based(name, path, workflow_dir) IN
  IF ~tool.ok THEN tool ELSE Ok(Tool_cmd(tool.value, interpolator, fs))

\* the builtin_tool(name) of a script, and its cmd
builtin_tool_cmd(name, interpolator, fs) ==
  LET tool == Tool_builtin(name) IN
  IF ~tool.ok THEN tool ELSE Ok(Tool_cmd(tool.value, interpolator, fs))

(* ---- the specification of calls of the library's functions ---- *)

\* longest format string, and most arguments after it
MaxFmtLen == 4
MaxFormatArgs == 2
\* longest cli_flag
MaxFlagLen == 4

RECURSIVE StringsOfLen(_, _)
\* the strings of n characters out of chars
StringsOfLen(chars, n) ==
  IF n = 0 THEN {""}
  ELSE {s \o c : s \in StringsOfLen(chars, n - 1), c \in chars}

StringsUpTo(chars, n) == UNION {StringsOfLen(chars, k) : k \in 0..n}

\* what a script passes to format after the format string
FormatArgs ==
  {Str(s) : s \in {"", "a", "{}", "a{}"}} \cup {IntValue(1), NoneValue}

FormatCalls ==
  [fn : {"format"},
   fmt_str : StringsUpTo({"{", "}", "a"}, MaxFmtLen),
   args : UNION {[1..n -> FormatArgs] : n \in 0..MaxFormatArgs}]

FlagCalls ==
  [fn : {"validate_cli_flag"},
   cli_flag : {None} \cup {Some(s) : s \in StringsUpTo({"-", "x", " "}, MaxFlagLen)}]

\* the tools of a script: tool(name = "t", path = ...) and builtin_tool(name = "t")
ToolPaths == {"t", "d/t", "/b/t", "", "t t"}
\* the directory of the canonicalized workflow file
WorkflowDirs == {"/w", "/"}
Interpolators ==
  {NoStringInterp, StrInterp("d/t"),
   ParseContextInterp(Err("Unknown function 'f' in string interpolation"))}
\* the paths at which a file may be
FilePaths == {"/w/t", "/w/d/t", "/b/t", "/t"}
FileSystems ==
  {FileSystem(executable, plain, path_env, "/w") :
     executable \in SUBSET FilePaths, plain \in SUBSET FilePaths,
     path_env \in {<<>>, <<"/w", "/b">>}}
  \ {fs \in {FileSystem(executable, plain, path_env, "/w") :
               executable \in SUBSET FilePaths, plain \in SUBSET FilePaths,
               path_env \in {<<>>, <<"/w", "/b">>}} :
       fs.executable \cap fs.plain # {}}

CmdCalls ==
  [fn : {"cmd"}, builtin : BOOLEAN, name : {"t"}, path : ToolPaths,
   workflow_dir : WorkflowDirs, interpolator : Interpolators, fs : FileSystems]

SpecValues == {StringArg(Some("d"), None), IntArg(Some(7), None)}
\* a dict of at most two spec entries named x and y
ArgSpecs ==
  {<<>>}
  \cup {<<<<n, s>>>> : n \in {"x", "y"}, s \in SpecValues}
  \cup {<<<<n[1], s1>>, <<n[2], s2>>>> :
          n \in {<<"x", "y">>, <<"y", "x">>}, s1 \in SpecValues, s2 \in SpecValues}

\* the named arguments of a call of a stub: each of x, y, z at most once
NamedArgs ==
  LET given == {Str("s"), IntValue(1)} IN
  {<<>>}
  \cup {<<<<n, v>>>> : n \in {"x", "y", "z"}, v \in given}
  \cup {<<<<n[1], v1>>, <<n[2], v2>>>> :
          n \in {<<"x", "y">>, <<"x", "z">>, <<"y", "z">>}, v1 \in given, v2 \in given}
  \cup {<<<<"x", v1>>, <<"y", v2>>, <<"z", v3>>>> :
          v1 \in given, v2 \in given, v3 \in given}

InvokeCalls == [fn : {"invoke"}, arg_spec : ArgSpecs, args : NamedArgs]

\* format(fmt_str, *args).fmt(resolver), nothing being registered
call_format ==
  /\ call.some /\ call.v.fn = "format" /\ ~ret.some
  /\ ret' = Some(fmt(format_impl(call.v.fmt_str, call.v.args), HashMap(EmptyMap)))
  /\ UNCHANGED <<extra, environ, vars, store, last, engine>>
  /\ UNCHANGED <<callbacks, snapshots, call>>
  /\ UNCHANGED os

\* variable(cli_flag = ...)
call_validate_cli_flag ==
  /\ call.some /\ call.v.fn = "validate_cli_flag" /\ ~ret.some
  /\ ret' = Some(validate_cli_flag(call.v.cli_flag))
  /\ UNCHANGED <<extra, environ, vars, store, last, engine>>
  /\ UNCHANGED <<callbacks, snapshots, call>>
  /\ UNCHANGED os

\* stub(**args) for stub = next(implementation = ..., args = arg_spec)
call_invoke ==
  /\ call.some /\ call.v.fn = "invoke" /\ ~ret.some
  /\ ret' = Some(invoke(next_impl(call.v.arg_spec), call.v.args))
  /\ UNCHANGED <<extra, environ, vars, store, last, engine>>
  /\ UNCHANGED <<callbacks, snapshots, call>>
  /\ UNCHANGED os

\* tool(name, path) or builtin_tool(name), then Tool::cmd
call_cmd ==
  /\ call.some /\ call.v.fn = "cmd" /\ ~ret.some
  /\ ret' = Some(IF call.v.builtin
                 THEN builtin_tool_cmd(call.v.name, call.v.interpolator, call.v.fs)
                 ELSE tool_cmd(call.v.name, call.v.path, call.v.workflow_dir,
                               call.v.interpolator, call.v.fs))
  /\ UNCHANGED <<extra, environ, vars, store, last, engine>>
  /\ UNCHANGED <<callbacks, snapshots, call>>
  /\ UNCHANGED os

CallInit ==
  /\ extra = "ParseDelegateHolder"
  /\ environ = [k \in EnvKeys |-> EnvUnset]
  /\ vars = EmptyMap
  /\ store = EmptyMap
  /\ last = Idle
  /\ script = NoScript
  /\ EngineInit
  /\ callbacks = <<>>
  /\ snapshots = <<>>
  /\ \/ call \in {Some(c) : c \in FormatCalls}
     \/ call \in {Some(c) : c \in FlagCalls}
     \/ call \in {Some(c) : c \in InvokeCalls}
     \/ call \in {Some(c) : c \in CmdCalls}
  /\ ret = None
  /\ outcome = None
  /\ pump = NoPump

CallNext ==
  \/ call_format
  \/ call_validate_cli_flag
  \/ call_invoke
  \/ call_cmd

CallSpec == CallInit /\ [][CallNext]_state

(* ---- Action::run from spawn to the ActionCtx: the output pump ---- *)

\* most steps of a child before it exits
MaxSteps == 3
\* the bytes a pipe holds before a write to it blocks
PipeCapacity == 1
\* a byte that is UTF-8 on its own ("a") and one that no UTF-8 text contains
Bytes == {97, 255}
Streams == {"stdout", "stderr"}

\* what a child does in one step
Write(stream, byte) == [op |-> "write", stream |-> stream, byte |-> byte]
Close(stream) == [op |-> "close", stream |-> stream, byte |-> 0]
Steps == {Write(s, b) : s \in Streams, b \in Bytes} \cup {Close(s) : s \in Streams}

\* a child uses no stream that it has closed; when its steps are done it
\* exits, which closes what is still open
Programs ==
  {p \in UNION {[1..n -> Steps] : n \in 0..MaxSteps} :
     \A i, j \in 1..Len(p) :
       (i < j /\ p[i].op = "close") => p[j].stream # p[i].stream}

\* OutputCollector::new
OutputCollector_new(should_collect) ==
  [stdout |-> <<>>, stderr |-> <<>>, should_collect |-> should_collect]

\* slip: the buffers hold what the latest read cycle gave
collect_latest(self, buf_stdout, buf_stderr) ==
  IF self.should_collect
  THEN [self EXCEPT !.stdout = buf_stdout, !.stderr = buf_stderr]
  ELSE self

\* OutputCollector::collect
collect(self, buf_stdout, buf_stderr) ==
  IF self.should_collect
  THEN [self EXCEPT !.stdout = @ \o buf_stdout, !.stderr = @ \o buf_stderr]
  ELSE self

RECURSIVE to_string(_)
\* the text of bytes that are all ASCII
to_string(bytes) ==
  IF Len(bytes) = 0 THEN ""
  ELSE (IF Head(bytes) = 97 THEN "a" ELSE "?") \o to_string(Tail(bytes))

\* std::str::from_utf8(..).map(|v| v.to_string())?, for the bytes of Bytes
from_utf8(bytes) ==
  IF \E i \in 1..Len(bytes) : bytes[i] > 127
  THEN Err("invalid utf-8 sequence")
  ELSE Ok(to_string(bytes))

\* OutputCollector::stdout and OutputCollector::stderr
OutputCollector_stdout(self) == from_utf8(self.stdout)
OutputCollector_stderr(self) == from_utf8(self.stderr)

\* ActionCtx::new(stdout, stderr, status)
ActionCtx_new_with_output(stdout, stderr, status) ==
  [stdout |-> stdout, stderr |-> stderr, exit_code |-> ActionCtx_new(status).exit_code]

\* the child just spawned with piped stdout and stderr, and Action::run about
\* to enter its loop
Spawned(program, needs_action_ctx) ==
  [at |-> "fill_stdout",
   program |-> program,
   exited |-> FALSE,
   open |-> [s \in Streams |-> TRUE],
   pipe |-> [s \in Streams |-> <<>>],
   written |-> [s \in Streams |-> <<>>],
   buf |-> <<>>,
   output_collector |-> OutputCollector_new(needs_action_ctx),
   mirrored |-> [s \in Streams |-> <<>>],
   ctx |-> None]

Running == pump.at # "none"

\* the child's next step is a write to a pipe that is full
Blocked(stream) ==
  /\ Running
  /\ pump.program # <<>>
  /\ Head(pump.program) = Write(stream, Head(pump.program).byte)
  /\ Len(pump.pipe[stream]) >= PipeCapacity

\* a read of the pipe returns: there are bytes in it, or its write end is closed
Readable(stream) == pump.pipe[stream] # <<>> \/ ~pump.open[stream]

\* the child writes a byte to one of its streams
child_write ==
  /\ Running
  /\ pump.program # <<>>
  /\ Head(pump.program).op = "write"
  /\ LET step == Head(pump.program) IN
     /\ ~Blocked(step.stream)
     /\ pump' = [pump EXCEPT !.program = Tail(@),
                             !.pipe[step.stream] = Append(@, step.byte),
                             !.written[step.stream] = Append(@, step.byte)]
  /\ UNCHANGED <<extra, environ, vars, store, last>>
  /\ UNCHANGED engine
  /\ UNCHANGED aux
  /\ UNCHANGED outcome

\* the child closes one of its streams
child_close ==
  /\ Running
  /\ pump.program # <<>>
  /\ Head(pump.program).op = "close"
  /\ pump' = [pump EXCEPT !.program = Tail(@),
                          !.open[Head(pump.program).stream] = FALSE]
  /\ UNCHANGED <<extra, environ, vars, store, last>>
  /\ UNCHANGED engine
  /\ UNCHANGED aux
  /\ UNCHANGED outcome

\* the child exits
child_exit ==
  /\ Running
  /\ pump.program = <<>>
  /\ ~pump.exited
  /\ pump' = [pump EXCEPT !.exited = TRUE, !.open = [s \in Streams |-> FALSE]]
  /\ UNCHANGED <<extra, environ, vars, store, last>>
  /\ UNCHANGED engine
  /\ UNCHANGED aux
  /\ UNCHANGED outcome

\* the loop of Action::run: stdout.fill_buf() returns
fill_buf_stdout ==
  /\ pump.at = "fill_stdout"
  /\ Readable("stdout")
  /\ pump' = [pump EXCEPT !.at = "fill_stderr",
                          !.buf = pump.pipe["stdout"],
                          !.pipe["stdout"] = <<>>]
  /\ UNCHANGED <<extra, environ, vars, store, last>>
  /\ UNCHANGED engine
  /\ UNCHANGED aux
  /\ UNCHANGED outcome

\* the loop of Action::run: stderr.fill_buf() returns, and the rest of the
\* turn: collect, the copy to the own stdout and stderr, break or consume
fill_buf_stderr ==
  /\ pump.at = "fill_stderr"
  /\ Readable("stderr")
  /\ LET stdout == pump.buf
         stderr == pump.pipe["stderr"]
     IN
     pump' = [pump EXCEPT
                !.at = IF Len(stdout) = 0 /\ Len(stderr) = 0 THEN "wait" ELSE "fill_stdout",
                !.buf = <<>>,
                !.pipe["stderr"] = <<>>,
                !.output_collector = collect(@, stdout, stderr),
                !.mirrored["stdout"] = @ \o stdout,
                !.mirrored["stderr"] = @ \o stderr]
  /\ UNCHANGED <<extra, environ, vars, store, last>>
  /\ UNCHANGED engine
  /\ UNCHANGED aux
  /\ UNCHANGED outcome

\* Action::run after the loop: child.wait() returns and the ActionCtx is made
child_wait(status) ==
  /\ pump.at = "wait"
  /\ pump.exited
  /\ LET stdout == OutputCollector_stdout(pump.output_collector)
         stderr == OutputCollector_stderr(pump.output_collector)
     IN
     pump' = [pump EXCEPT
                !.at = "done",
                !.ctx = Some(IF ~stdout.ok THEN stdout
                             ELSE IF ~stderr.ok THEN stderr
                             ELSE Ok(ActionCtx_new_with_output(stdout.value, stderr.value,
                                                               status)))]
  /\ UNCHANGED <<extra, environ, vars, store, last>>
  /\ UNCHANGED engine
  /\ UNCHANGED aux
  /\ UNCHANGED outcome

\* an action, with or without setters, has spawned a child
PumpInit ==
  /\ extra = "ParseDelegateHolder"
  /\ environ = [k \in EnvKeys |-> EnvUnset]
  /\ vars = EmptyMap
  /\ store = EmptyMap
  /\ last = Idle
  /\ script = NoScript
  /\ EngineInit
  /\ callbacks = <<>>
  /\ snapshots = <<>>
  /\ call = None
  /\ ret = None
  /\ outcome = None
  /\ pump \in {Spawned(program, needs_action_ctx) :
                 program \in Programs, needs_action_ctx \in BOOLEAN}

Child == child_write \/ child_close \/ child_exit

Reader == fill_buf_stdout \/ fill_buf_stderr \/ \E status \in Statuses : child_wait(status)

PumpNext ==
  \/ child_write
  \/ child_close
  \/ child_exit
  \/ fill_buf_stdout
  \/ fill_buf_stderr
  \/ \E status \in Statuses : child_wait(status)

PumpSpec == PumpInit /\ [][PumpNext]_state

\* the child and the thread of Action::run both run whenever they can
PumpFairSpec == PumpSpec /\ WF_state(Child) /\ WF_state(Reader)

(* ---- what the properties speak about ---- *)

Elements(seq) == {seq[i] : i \in 1..Len(seq)}

\* the call that has just returned realized the variables from args
Realized == last.op \in {"update_from_environment", "realize_variables"}

\* the registry that call worked on, as it is now
Registry == IF last.op = "update_from_environment" THEN vars ELSE store

\* flag is an element of args that has an element after it
FlagHasValue(flag, args) == \E i \in 1..(Len(args) - 1) : args[i] = flag

\* the variable declares a cli_flag and args gives it a value
CliMatched(v, args) == v.cli_flag.some /\ FlagHasValue(v.cli_flag.v, args)

\* the variable declares an env name and the environment holds a string for it
EnvGives(v) ==
  /\ v.env.some
  /\ environ[v.env.v].set
  /\ environ[v.env.v].unicode

\* the variable declares an env name and the environment has it set
EnvIsSet(v) == v.env.some /\ environ[v.env.v].set

\* the variable's cli_flag is in args only as the last element
FlagIsLastOnly(v, args) ==
  /\ v.cli_flag.some
  /\ Len(args) >= 1
  /\ args[Len(args)] = v.cli_flag.v
  /\ ~FlagHasValue(v.cli_flag.v, args)

Permitted(scope, who) ==
  scope.kind = "Global" \/ who \in Elements(scope.allowed)

(* ---- C1 ---- *)

\* C1: after realize_variables(args), every registered variable whose cli_flag
\* occurs in args followed by a value holds that following value with provenance
\* CLIFlag(flag), whatever its env variable and its default are.
C1_CliFlagWins ==
  Realized =>
    \A k \in DOMAIN Registry :
      LET v == Registry[k] IN
      CliMatched(v, last.args) =>
        /\ v.value_ctx.some
        /\ v.value_ctx.v.updated_by = CLIFlag(v.cli_flag.v)
        /\ \E i \in 1..(Len(last.args) - 1) :
             /\ last.args[i] = v.cli_flag.v
             /\ v.value_ctx.v.value = last.args[i + 1]

\* a realize has run on a variable with a default, an env variable that is set
\* and a cli_flag that args gives a value
C1_Witness ==
  /\ Realized
  /\ \E k \in DOMAIN Registry :
       /\ CliMatched(Registry[k], last.args)
       /\ EnvGives(Registry[k])
       /\ last.pre[k].value_ctx.some
       /\ last.pre[k].value_ctx.v.updated_by = DefaultValue

(* ---- C2 ---- *)

\* C2: after realize_variables(args), a variable whose cli_flag is not matched
\* in args (or that has no cli_flag) and whose env name is set to e holds e with
\* provenance EnvironmentVariable(name), overriding its default.
C2_EnvOverridesDefault ==
  Realized =>
    \A k \in DOMAIN Registry :
      LET v == Registry[k] IN
      (~CliMatched(v, last.args) /\ EnvGives(v)) =>
        v.value_ctx = Some(ValueContext(environ[v.env.v].val,
                                        EnvironmentVariable(v.env.v)))

\* a realize has run on a variable with a default whose flag is not matched and
\* whose env variable is set
C2_Witness ==
  /\ Realized
  /\ \E k \in DOMAIN Registry :
       /\ ~CliMatched(Registry[k], last.args)
       /\ EnvGives(Registry[k])
       /\ last.pre[k].value_ctx.some
       /\ last.pre[k].value_ctx.v.updated_by = DefaultValue

(* ---- C3 ---- *)

\* C3: realize_variables leaves a variable exactly as it was (value and
\* provenance, default or unset) when its cli_flag is not matched in args and its
\* env name is not set in the environment.
C3_NeitherLeavesUntouched ==
  Realized =>
    /\ DOMAIN Registry = DOMAIN last.pre
    /\ \A k \in DOMAIN Registry :
         (~CliMatched(last.pre[k], last.args) /\ ~EnvIsSet(last.pre[k])) =>
           Registry[k] = last.pre[k]

\* a realize has run over a variable that declares both a cli_flag and an env
\* name, with neither of them supplied
C3_Witness ==
  /\ Realized
  /\ \E k \in DOMAIN Registry :
       /\ last.pre[k].cli_flag.some
       /\ last.pre[k].env.some
       /\ ~CliMatched(last.pre[k], last.args)
       /\ ~EnvIsSet(last.pre[k])
       /\ last.args # <<>>

(* ---- C4 ---- *)

\* C4: when a variable's cli_flag is the last element of args, with no value
\* after it, realize does not take a value from the command line: the variable
\* gets its env variable's value if that is set, and otherwise stays as it was.
C4_FlagWithoutValueFallsThrough ==
  Realized =>
    \A k \in DOMAIN Registry :
      LET v == Registry[k] IN
      FlagIsLastOnly(last.pre[k], last.args) =>
        IF EnvGives(v)
        THEN v.value_ctx = Some(ValueContext(environ[v.env.v].val,
                                             EnvironmentVariable(v.env.v)))
        ELSE v = last.pre[k]

\* a realize has run with a variable's flag as the last argument, the variable
\* having a default and no env value to fall back to
C4_Witness ==
  /\ Realized
  /\ \E k \in DOMAIN Registry :
       /\ FlagIsLastOnly(last.pre[k], last.args)
       /\ Len(last.args) >= 2
       /\ ~EnvGives(Registry[k])
       /\ last.pre[k].value_ctx.some

(* ---- C5 ---- *)

\* the value a pairwise scan finds: args is cut into (flag, value) pairs and the
\* first pair whose flag is the given one supplies the value
RECURSIVE PairwiseValue(_, _)
PairwiseValue(flag, args) ==
  IF Len(args) < 2 THEN None
  ELSE IF args[1] = flag THEN Some(args[2])
  ELSE PairwiseValue(flag, SubSeq(args, 3, Len(args)))

\* C5: flag matching scans args pairwise as (flag, value) pairs; an element in a
\* value position that equals the variable's flag is not taken as its flag, so a
\* variable whose flag has a pair holds that pair's value after realize (with
\* ["--bar", "--foo", "--foo", "y"] the variable with cli_flag "--foo" holds "y").
C5_PairwiseScan ==
  Realized =>
    \A k \in DOMAIN Registry :
      LET v == Registry[k] IN
      v.cli_flag.some =>
        LET pair == PairwiseValue(v.cli_flag.v, last.args) IN
        IF pair.some
        THEN v.value_ctx = Some(ValueContext(pair.v, CLIFlag(v.cli_flag.v)))
        ELSE IF EnvGives(v)
        THEN v.value_ctx = Some(ValueContext(environ[v.env.v].val,
                                             EnvironmentVariable(v.env.v)))
        ELSE v = last.pre[k]

(* ---- C6 ---- *)

\* a read_value of a registered variable has just returned
ReadDone == last.op = "with_variable" /\ last.key \in DOMAIN vars

\* C6 as stated: read_value(v, r) succeeds if and only if r is permitted by
\* v.readers (r in S for Restricted(S), every r for Global).
C6_ReadSucceedsIffPermitted ==
  ReadDone => (last.res.ok <=> Permitted(vars[last.key].readers, last.who))

\* C6, amended: for a variable that has a value, read_value(v, r) succeeds if and
\* only if r is permitted by v.readers (r in S for Restricted(S), every r for
\* Global).
C6_ReadOfValueSucceedsIffPermitted ==
  (ReadDone /\ vars[last.key].value_ctx.some) =>
    (last.res.ok <=> Permitted(vars[last.key].readers, last.who))

\* a variable that has a value and restricted readers has been read by a reader
\* outside its scope
C6_Witness ==
  /\ ReadDone
  /\ vars[last.key].value_ctx.some
  /\ vars[last.key].readers.kind = "Restricted"
  /\ last.who \notin Elements(vars[last.key].readers.allowed)
  /\ Permitted(vars[last.key].writers, last.who)

(* ---- C7 ---- *)

\* a write_value of a registered variable has just returned
WriteDone == last.op = "with_variable_mut" /\ last.key \in DOMAIN last.pre

\* C7: write_value(v, value, w) with w outside a Restricted writers scope fails
\* with WriteNotAllowed and leaves the variable unchanged; with w permitted it
\* stores the value with provenance Action(w).
C7_WriteScope ==
  WriteDone =>
    IF Permitted(last.pre[last.key].writers, last.who)
    THEN /\ last.res.ok
         /\ vars = [last.pre EXCEPT ![last.key].value_ctx =
                      Some(ValueContext(last.value, Action(last.who)))]
    ELSE /\ last.res = Err("WriteNotAllowed")
         /\ vars = last.pre

\* a writer outside the writers scope has tried to write a variable
C7_Witness ==
  /\ WriteDone
  /\ last.pre[last.key].writers.kind = "Restricted"
  /\ last.who \notin Elements(last.pre[last.key].writers.allowed)

(* ---- C8 ---- *)

\* C8: reading a variable that has no value (and so no default) by a permitted
\* reader fails with the "No value set" error, and a read that succeeds returns
\* the value the variable holds, never a stand-in for a missing one.
C8_NoValueIsAnError ==
  ReadDone =>
    LET v == vars[last.key] IN
    /\ (Permitted(v.readers, last.who) /\ ~v.value_ctx.some) =>
         last.res = Err("NoDefaultValueSet")
    /\ last.res.ok => (v.value_ctx.some /\ last.res.value = v.value_ctx.v.value)

\* a permitted reader has read a variable that has no value
C8_Witness ==
  /\ ReadDone
  /\ Permitted(vars[last.key].readers, last.who)
  /\ ~vars[last.key].value_ctx.some

(* ---- C9 ---- *)

UpdateDone == last.op = "update_variable_value"

\* C9: update_variable_value(identifier, value, provenance) replaces the
\* (value, provenance) of the registered variable with that identifier and of no
\* other, and changes nothing in the store when the identifier is not registered.
C9_UpdateOverwritesOrNoop ==
  UpdateDone =>
    IF last.key \in DOMAIN last.pre
    THEN store = [last.pre EXCEPT ![last.key].value_ctx =
                    Some(ValueContext(last.value, last.by))]
    ELSE store = last.pre

\* a registered variable that already had a value has been updated while another
\* variable was registered too
C9_Witness ==
  /\ UpdateDone
  /\ last.key \in DOMAIN last.pre
  /\ last.pre[last.key].value_ctx.some
  /\ last.pre[last.key].value_ctx.v.updated_by # last.by
  /\ DOMAIN last.pre # {last.key}

(* ---- C10 ---- *)

\* C10: declaring a second variable with a name that is already declared fails:
\* add_variable returns the VariableAlreadyExists error.
C10_DuplicateNameFails ==
  (last.op = "add_variable" /\ last.key \in DOMAIN last.pre) =>
    last.res = Err("VariableAlreadyExists")

\* add_variable has been called with a name that was already declared
C10_Witness ==
  /\ last.op = "add_variable"
  /\ last.key \in DOMAIN last.pre

(* ---- what the properties of the graph engine speak about ---- *)

\* the values the script passes as graph
ScriptNodes ==
  IF script.graph.type = "list" THEN script.graph.items ELSE <<script.graph>>

\* two nodes among values have the same name
SameName(values) ==
  \E i, j \in 1..Len(values) :
    /\ i < j
    /\ values[i].type = NODE_TYPE
    /\ values[j].type = NODE_TYPE
    /\ values[i].name = values[j].name

\* the values up to the first one that is not a node
RECURSIVE NodesPrefix(_)
NodesPrefix(values) ==
  IF values = <<>> \/ Head(values).type # NODE_TYPE THEN <<>>
  ELSE <<Head(values)>> \o NodesPrefix(Tail(values))

\* workflow(...) has returned
Constructed == main.some

\* the workflow bound to main
TheWorkflow == main.v.value

(* ---- C11 ---- *)

\* C11: constructing a workflow from a graph in which two nodes have the same
\* name (the empty default name included) fails; the failure is 'nodes must have
\* unique names' when the clash is met before any value that is not a node; and
\* every workflow that is constructed has pairwise distinct node names.
C11_UniqueNodeNames ==
  Constructed =>
    /\ SameName(ScriptNodes) => ~main.v.ok
    /\ SameName(NodesPrefix(ScriptNodes)) => main.v = Err("nodes must have unique names")
    /\ main.v.ok =>
         \A i, j \in 1..Len(TheWorkflow.graph) :
           i # j => TheWorkflow.graph[i].name # TheWorkflow.graph[j].name

\* a workflow has been constructed from two nodes that both have the default name
C11_Witness ==
  /\ Constructed
  /\ Len(ScriptNodes) = 2
  /\ ScriptNodes[1].type = NODE_TYPE
  /\ ScriptNodes[2].type = NODE_TYPE
  /\ ScriptNodes[1].name = ""
  /\ ScriptNodes[2].name = ""
  /\ ScriptNodes[1] # ScriptNodes[2]

(* ---- C12 ---- *)

\* C12: constructing a workflow with an empty graph is a construction error: the
\* workflow(...) call fails and the parse is aborted.
C12_EmptyGraphIsAConstructionError ==
  (Constructed /\ ScriptNodes = <<>>) => (~main.v.ok /\ pc.at = "aborted")

(* ---- C13 ---- *)

\* Workflow::run has looked for its first node
Started == pc.at \notin {"start", "eval", "evaluated", "parsed", "aborted"}

HasNode(self, name) == \E i \in 1..Len(self.graph) : self.graph[i].name = name

\* the run began with the node of this name
StartsAt(name) == trace # <<>> /\ trace[1] = [ev |-> "run", node |-> name]

\* the run failed with this error before any node was run
FailsToStart(e) == trace = <<>> /\ result = Some(Err(e))

\* C13: a graph with exactly one node starts at that node whatever the
\* entrypoint; a graph with more than one node starts at the node named by the
\* entrypoint and fails with 'No node with name' when there is none; an empty
\* graph fails.
C13_StartNode ==
  Started =>
    IF Len(TheWorkflow.graph) = 1 THEN StartsAt(TheWorkflow.graph[1].name)
    ELSE IF Len(TheWorkflow.graph) = 0 THEN FailsToStart("Graph contains no nodes")
    ELSE IF HasNode(TheWorkflow, TheWorkflow.entrypoint)
    THEN StartsAt(TheWorkflow.entrypoint)
    ELSE FailsToStart("No node with name: '" \o TheWorkflow.entrypoint \o "'")

\* a run has started at the only node of a graph, whose name the entrypoint is not
C13_Witness ==
  /\ Started
  /\ Len(TheWorkflow.graph) = 1
  /\ TheWorkflow.graph[1].name # TheWorkflow.entrypoint
  /\ StartsAt(TheWorkflow.graph[1].name)

(* ---- C14 ---- *)

\* Workflow::run has returned
Done == pc.at = "done"

\* the node of the graph that an event of the trace belongs to
NodeOf(e) == node_with_name(TheWorkflow, e.node).value

\* the i-th event is a call of a Next that returned the name of a node
NextNamed(i, name) ==
  /\ trace[i].ev = "next"
  /\ trace[i].ret = Ok(Str(name))

\* C14: Workflow.run walks the graph: when the Next of the node that has run
\* returns the name of a node, that node is run next, until a node yields none
\* (with a the entrypoint, a's Next returning "b" and b without a Next, the run
\* executes a, then b, then ends).
C14_WalkFollowsNext ==
  Done =>
    \A i \in 1..Len(trace) : \A name \in NextNames :
      (NextNamed(i, name) /\ HasNode(TheWorkflow, name)) =>
        /\ i < Len(trace)
        /\ trace[i + 1] = [ev |-> "run", node |-> name]

(* ---- C15 ---- *)

\* C15: when a node's Next returns a name that no node of the graph has,
\* Workflow.run fails with an error; it does not stop and report success.
C15_UnknownNextIsAnError ==
  Done =>
    \A i \in 1..Len(trace) : \A name \in NextNames :
      (NextNamed(i, name) /\ ~HasNode(TheWorkflow, name)) =>
        /\ result.some
        /\ ~result.v.ok

(* ---- C16 ---- *)

\* the events before the i-th that satisfy P
Before(i, P(_)) == {j \in 1..(i - 1) : P(trace[j])}

IsSpawn(e) == e.ev = "spawn"
IsReturned(e) == e.ev = "returned"
IsNext(e) == e.ev = "next"

\* C16: Node.run runs the node's actions in declared order, one at a time: the
\* k-th subprocess spawned is that of action k, and it is spawned only when
\* every earlier action has returned without error.  When an action's run
\* returns an error, Node.run returns that error, nothing is spawned afterwards
\* and the node's Next is not called.
C16_ActionsInOrderStopAtFailure ==
  \A i \in 1..Len(trace) :
    /\ IsSpawn(trace[i]) =>
         /\ trace[i].action = 1 + Cardinality(Before(i, IsSpawn))
         /\ Cardinality(Before(i, IsReturned)) = trace[i].action - 1
         /\ \A j \in Before(i, IsReturned) : trace[j].res.ok
    /\ (IsReturned(trace[i]) /\ ~trace[i].res.ok) =>
         /\ i = Len(trace)
         /\ Before(i, IsNext) = {}
         /\ Done
         /\ node_res = Some(trace[i].res)

\* the first of the two actions of a node that has a Next has failed
C16_Witness ==
  /\ trace # <<>>
  /\ Len(NodeOf(trace[1]).actions) = 2
  /\ NodeOf(trace[1]).next.type = NEXT_TYPE
  /\ \E i \in 1..Len(trace) :
       /\ IsReturned(trace[i])
       /\ trace[i].action = 1
       /\ ~trace[i].res.ok

(* ---- C17 ---- *)

\* the i-th event is the exit of this action's subprocess with a nonzero code
ExitedNonzero(i, action) ==
  /\ trace[i].ev = "exit"
  /\ trace[i].action = action
  /\ trace[i].status.code.some
  /\ trace[i].status.code.v # 0

\* C17: in a node with two actions, when the subprocess of the first action
\* exits with a nonzero code, the node run fails and the second action is never
\* spawned.
C17_NonzeroExitFailsTheNode ==
  \A i \in 1..Len(trace) :
    (ExitedNonzero(i, 1) /\ Len(NodeOf(trace[i]).actions) = 2) =>
      /\ \A j \in 1..Len(trace) : ~(IsSpawn(trace[j]) /\ trace[j].action = 2)
      /\ Done => ~node_res.v.ok

(* ---- C18 ---- *)

\* C18: Node.run reads the value its Next returned: a string is the name of the
\* node to continue with, none ends the walk (no next node is returned), any
\* other type makes Node.run fail.  A node without a bound Next never has a Next
\* called, never returns a next node, and returns none once its actions are done.
C18_NextReturnValue ==
  /\ \A i \in 1..Len(trace) :
       (IsNext(trace[i]) /\ trace[i].ret.ok) =>
         /\ node_res.some
         /\ IF trace[i].ret.value.type = "string"
            THEN node_res.v = Ok(Some(trace[i].ret.value.str))
            ELSE IF trace[i].ret.value.type = "NoneType"
            THEN node_res.v = Ok(None)
            ELSE ~node_res.v.ok
  /\ (trace # <<>> /\ NodeOf(trace[1]).next.type # NEXT_TYPE) =>
       /\ \A i \in 1..Len(trace) : ~IsNext(trace[i])
       /\ (node_res.some /\ node_res.v.ok) => node_res.v.value = None
       /\ ( /\ IsReturned(trace[Len(trace)])
            /\ trace[Len(trace)].res.ok
            /\ trace[Len(trace)].action = Len(NodeOf(trace[1]).actions) ) =>
            node_res = Some(Ok(None))

\* a Next has returned a value that is neither a string nor none
C18_Witness ==
  \E i \in 1..Len(trace) :
    /\ IsNext(trace[i])
    /\ trace[i].ret = Ok(IntValue(1))

(* ---- C19 ---- *)

IsSetter(e) == e.ev = "setter"

\* the identifier of the variable the setter of this event writes to
TargetOf(e) == variable_identifier(NodeOf(e).actions[e.action].setters[e.setter])

\* C19: the string a setter returns is written through the write-scope-checked
\* path: when the variable's writers scope permits neither the running node nor
\* the name the update is attributed to, the variable keeps its value.
C19_SetterRespectsWriteScope ==
  \A i \in 1..Len(trace) :
    (IsSetter(trace[i]) /\ trace[i].ret.ok /\ trace[i].ret.value.type = "string") =>
      LET id == TargetOf(trace[i]) IN
      (\A who \in NodeNames : ~Permitted(trace[i].pre[id].writers, who)) =>
        trace[i].post[id] = trace[i].pre[id]

(* ---- C20 ---- *)

\* C20: the setters of an action are called in declared order, after the
\* action's subprocess has exited; a setter that returns none leaves the store,
\* and so its target, as it was; a setter that returns a value that is neither a
\* string nor none makes the action's run fail at once, and no later setter of
\* the action is called.
C20_SettersInOrder ==
  \A i \in 1..Len(trace) :
    IsSetter(trace[i]) =>
      LET SameAction(e) == e.action = trace[i].action
          IsExitOfIt(e) == e.ev = "exit" /\ SameAction(e)
          IsSetterOfIt(e) == IsSetter(e) /\ SameAction(e)
      IN
      /\ Before(i, IsExitOfIt) # {}
      /\ trace[i].setter = 1 + Cardinality(Before(i, IsSetterOfIt))
      /\ (trace[i].ret.ok /\ trace[i].ret.value.type = "NoneType") =>
           trace[i].post = trace[i].pre
      /\ (trace[i].ret.ok /\ trace[i].ret.value.type \notin {"string", "NoneType"}) =>
           /\ trace[i].post = trace[i].pre
           /\ Len(trace) = i + 1
           /\ IsReturned(trace[i + 1])
           /\ SameAction(trace[i + 1])
           /\ ~trace[i + 1].res.ok
           /\ node_res = Some(trace[i + 1].res)

\* the first of the two setters of an action has returned a value that is
\* neither a string nor none
C20_Witness ==
  \E i \in 1..Len(trace) :
    /\ IsSetter(trace[i])
    /\ trace[i].setter = 1
    /\ Len(NodeOf(trace[i]).actions[trace[i].action].setters) = 2
    /\ trace[i].ret = Ok(IntValue(1))

(* ---- C21 ---- *)

\* the update issued for the string this setter returned cannot be carried out:
\* the store has no variable of the target identifier, or the variable's
\* writers scope permits no node
UpdateFails(e) ==
  LET id == TargetOf(e) IN
  \/ id \notin DOMAIN e.pre
  \/ \A who \in NodeNames : ~Permitted(e.pre[id].writers, who)

\* C21: when the variable update issued for the string a setter returned
\* fails (unknown identifier or write-scope violation), the run of the action
\* the setter belongs to fails: it never returns an ActionCtx.
C21_UpdateFailureFailsTheAction ==
  \A i \in 1..Len(trace) :
    (/\ IsSetter(trace[i])
     /\ trace[i].ret.ok
     /\ trace[i].ret.value.type = "string"
     /\ UpdateFails(trace[i])) =>
      \A j \in (i + 1)..Len(trace) :
        (IsReturned(trace[j]) /\ trace[j].action = trace[i].action) =>
          ~trace[j].res.ok

(* ---- C22 ---- *)

IsCommand(e) == e.ev = "command"

ActionOf(e) == NodeOf(e).actions[e.action]

\* the tool path of this command, or one of the action's argument expressions,
\* fails to resolve against the store the command was built from
ResolutionFails(e) ==
  \/ ~e.real_path.ok
  \/ \E k \in 1..Len(ActionOf(e).args) :
       ~string_from_value(ActionOf(e).args[k], WorkflowDelegate(e.variable_store)).ok

\* C22: when the tool path or any argument expression of an action fails to
\* resolve, the run of the action returns that error at once: no subprocess is
\* spawned for the action and none of its setters is called.
C22_ResolutionFailureSpawnsNothing ==
  \A i \in 1..Len(trace) :
    (IsCommand(trace[i]) /\ ResolutionFails(trace[i])) =>
      LET OfIt(e) == e.action = trace[i].action IN
      /\ ~trace[i].res.ok
      /\ Len(trace) = i + 1
      /\ IsReturned(trace[i + 1])
      /\ OfIt(trace[i + 1])
      /\ trace[i + 1].res = trace[i].res
      /\ \A j \in 1..Len(trace) :
           (IsSpawn(trace[j]) \/ IsSetter(trace[j])) => ~OfIt(trace[j])

\* an action with a tool that resolves has an argument that names a variable
\* with no value
C22_Witness ==
  \E i \in 1..Len(trace) :
    /\ IsCommand(trace[i])
    /\ trace[i].real_path.ok
    /\ trace[i].res = Err("No value for variable")

(* ---- C23 ---- *)

\* the value the variable has in the store this command was built from
ValueThen(e, identifier) == VariableEntry_value(e.variable_store[identifier]).v

\* C23: arg_list gives one string per declared argument, in declared order: a
\* literal string is itself, a variable reference is the variable's current
\* value, format("--{}", v) is "--" followed by the current value of v; so
\* args = [v, format("--{}", v), "literal"] with v resolving to "abc" gives
\* ["abc", "--abc", "literal"].
C23_ArgListInDeclaredOrder ==
  /\ arg_list(PlainAction, HashMap("2" :> "abc")) = Ok(<<"abc", "--abc", "literal">>)
  /\ \A i \in 1..Len(trace) :
       (IsCommand(trace[i]) /\ trace[i].res.ok) =>
         LET declared == ActionOf(trace[i]).args
             resolved == trace[i].res.value.args
         IN
         /\ Len(resolved) = Len(declared)
         /\ \A k \in 1..Len(declared) :
              CASE declared[k].type = "string" ->
                     resolved[k] = declared[k].str
                [] declared[k].type = VARIABLE_REF_TYPE ->
                     resolved[k] = ValueThen(trace[i], declared[k].identifier)
                [] declared[k].type = VALUE_FORMATTER_TYPE ->
                     declared[k].fmt_str = "--{}" =>
                       resolved[k] =
                         "--" \o ValueThen(trace[i], declared[k].values[1].identifier)

\* the command of an action with a variable reference, a formatter and a
\* literal among its arguments has been built after a setter gave the variable
\* a value
C23_Witness ==
  \E i \in 1..Len(trace) :
    /\ IsCommand(trace[i])
    /\ trace[i].res.ok
    /\ trace[i].res.value.args = <<"w", "--w", "literal">>

(* ---- C24 ---- *)

Callbacks(cb) == {i \in 1..Len(callbacks) : callbacks[i].cb = cb}

\* the top-level statements of the script have all been evaluated
Evaluated == Declared = Len(ScriptVariables) /\ main.some /\ main.v.ok

\* C24: the delegate is told that parsing starts before anything is evaluated;
\* on_variable comes during evaluation, after will_parse_workflow and before
\* did_parse_workflow; did_parse_workflow, and so the realize step, comes at
\* most once, after the top-level statements have been evaluated, and exactly
\* once before any node or action is run.
C24_ParseLifecycle ==
  /\ (pc.at # "start") => (callbacks # <<>> /\ callbacks[1].cb = "will_parse_workflow")
  /\ Cardinality(Callbacks("will_parse_workflow")) <= 1
  /\ Cardinality(Callbacks("did_parse_workflow")) <= 1
  /\ \A i \in Callbacks("on_variable") :
       /\ \E j \in Callbacks("will_parse_workflow") : j < i
       /\ \A j \in Callbacks("did_parse_workflow") : i < j
  /\ Callbacks("did_parse_workflow") # {} => Evaluated
  /\ (Evaluated /\ pc.at # "evaluated") =>
       Cardinality(Callbacks("did_parse_workflow")) = 1
  /\ (trace # <<>> \/ result.some) =>
       /\ Cardinality(Callbacks("did_parse_workflow")) = 1
       /\ callbacks[Len(callbacks)].cb = "did_parse_workflow"

\* a setter is called in a run whose variables were realized from the command
\* line after both of them had been registered
C24_Witness ==
  /\ \E i \in 1..Len(trace) : IsSetter(trace[i])
  /\ Cardinality(Callbacks("on_variable")) = 2
  /\ \E i \in Callbacks("did_parse_workflow") : callbacks[i].workflow_args # <<>>

(* ---- C25 ---- *)

\* the display fields of the variables of a context
Fields(context) ==
  {[name |-> context[k].name, env |-> context[k].env, cli_flag |-> context[k].cli_flag,
    readers |-> context[k].readers, writers |-> context[k].writers,
    value |-> context[k].value_ctx] : k \in DOMAIN context}

Returns(fn) == call.some /\ call.v.fn = fn /\ ret.some

(* ---- C26 ---- *)

RECURSIVE Placeholders(_)
\* the number of `{}` in a format string, read from left to right
Placeholders(s) ==
  LET at == find(s, "{}") IN
  IF ~at.some THEN 0 ELSE 1 + Placeholders(SubSeq(s, at.v + 2, Len(s)))

RECURSIVE Filled(_, _)
\* s with its i-th `{}` replaced by the i-th of the values, as far as they go
Filled(s, values) ==
  LET at == find(s, "{}") IN
  IF Len(values) = 0 \/ ~at.some THEN s
  ELSE SubSeq(s, 1, at.v - 1) \o Head(values)
         \o Filled(SubSeq(s, at.v + 2, Len(s)), Tail(values))

\* the strings the arguments of the call stand for
ArgStrings == [i \in 1..Len(call.v.args) |-> to_str(call.v.args[i])]

\* C26: with at most as many arguments as the format string has `{}`
\* placeholders, formatting succeeds and gives the format string with its i-th
\* placeholder replaced by the i-th argument's value, whatever the values are,
\* the placeholders after the last argument staying as they are.
C26_FormatFillsPositionally ==
  (Returns("format") /\ Len(call.v.args) <= Placeholders(call.v.fmt_str)) =>
    ret.v = Ok(Filled(call.v.fmt_str, ArgStrings))

(* ---- C27 ---- *)

\* C27: with more arguments than the format string has `{}` placeholders,
\* formatting stops with the fatal error "more args than placeholders" and
\* gives no string.
C27_MoreArgsThanPlaceholdersIsFatal ==
  (Returns("format") /\ Len(call.v.args) > Placeholders(call.v.fmt_str)) =>
    (Panicked(ret.v) /\ ret.v.err = "more args than placeholders")

(* ---- C28 ---- *)

\* -x: two characters, the first one a dash, not two dashes
ShortFlag(flag) == Len(flag) = 2 /\ SubSeq(flag, 1, 1) = "-" /\ flag # "--"
\* --xxxx: more than two characters, the first two of them dashes
LongFlag(flag) == Len(flag) > 2 /\ SubSeq(flag, 1, 2) = "--"

\* C28: a cli_flag is accepted exactly when it has the shape -x or --xxxx;
\* every other string, any string of one character among them, is rejected
\* with an invalid-attribute error that names cli_flag.
C28_CliFlagShape ==
  (Returns("validate_cli_flag") /\ call.v.cli_flag.some) =>
    LET flag == call.v.cli_flag.v IN
    IF ShortFlag(flag) \/ LongFlag(flag)
    THEN ret.v = Ok(Some(flag))
    ELSE ~ret.v.ok /\ ret.v.err.attr = "cli_flag" /\ ret.v.err.value = flag

(* ---- C29 ---- *)

\* the names of the spec entries of the call, and of its named arguments
SpecNames == {call.v.arg_spec[i][1] : i \in 1..Len(call.v.arg_spec)}
ArgNames == {call.v.args[i][1] : i \in 1..Len(call.v.args)}
SpecOf(n) == (CHOOSE i \in 1..Len(call.v.arg_spec) : call.v.arg_spec[i][1] = n)
ArgOf(n) == call.v.args[CHOOSE i \in 1..Len(call.v.args) : call.v.args[i][1] = n][2]
SpecEntry(n) == call.v.arg_spec[SpecOf(n)][2]

\* the runtime type of the argument supplied for this spec entry is the spec's
Matches(n) ==
  ArgOf(n).type = (IF SpecEntry(n).arg = "StringArg" THEN "string" ELSE "int")

\* C29: a call of a stub that supplies nothing but arguments of the declared
\* names and types, and leaves some declared entry out, succeeds, and every
\* entry left out is bound to its spec's default; a call with a supplied
\* argument whose type is not the spec's fails.
C29_OmittedArgumentTakesDefault ==
  Returns("invoke") =>
    /\ (/\ ArgNames \subseteq SpecNames
        /\ ArgNames # SpecNames
        /\ \A n \in ArgNames : Matches(n)) =>
         /\ ret.v.ok
         /\ \A n \in SpecNames \ ArgNames : ret.v.value.args[n].v = SpecEntry(n).default
    /\ (\E n \in ArgNames \cap SpecNames : ~Matches(n)) => ~ret.v.ok

(* ---- C30 ---- *)

\* C30: a call of a stub with more named arguments than the spec has entries
\* fails; a call with no more named arguments than the spec has entries is
\* never rejected for having too many.
C30_TooManyArguments ==
  Returns("invoke") =>
    /\ Len(call.v.args) > Len(call.v.arg_spec) => ~ret.v.ok
    /\ Len(call.v.args) <= Len(call.v.arg_spec) =>
         ~(Panicked(ret.v) /\ ret.v.err = "too many args")

(* ---- C31 ---- *)

\* the store as did_parse_workflow left it: every declared variable realized
\* from the run's workflow_args
StoreAsParsed ==
  LET i == CHOOSE j \in Callbacks("did_parse_workflow") : TRUE IN
  [k \in DOMAIN ParsedStore |-> realize_entry(ParsedStore[k], callbacks[i].workflow_args)]

\* the store as the latest update before the i-th event left it
StoreBefore(i) ==
  LET setters == {j \in 1..(i - 1) : IsSetter(trace[j])} IN
  IF setters = {} THEN StoreAsParsed
  ELSE trace[CHOOSE j \in setters : \A l \in setters : l <= j].post

\* the value of the variable as of the latest update before the i-th event
CurrentValue(i, identifier) == VariableEntry_value(StoreBefore(i)[identifier])

\* the variables the argument expression refers to
Referenced(arg) ==
  CASE arg.type = VARIABLE_REF_TYPE -> {arg.identifier}
    [] arg.type = VALUE_FORMATTER_TYPE ->
         {arg.values[k].identifier :
            k \in {l \in 1..Len(arg.values) : arg.values[l].one_of = "Identifier"}}
    [] OTHER -> {}

\* C31: resolution is never cached: the arguments of every command are resolved
\* against the variable store as it is when the action runs, so a reference to
\* a variable yields the value of the latest update before it (realize at the
\* end of parsing, or the setter of an earlier action), and fails only if the
\* variable has no value then.
C31_ResolutionIsNotCached ==
  \A i \in 1..Len(trace) :
    (IsCommand(trace[i]) /\ trace[i].real_path.ok) =>
      LET declared == ActionOf(trace[i]).args IN
      /\ trace[i].res.ok <=>
           \A k \in 1..Len(declared) :
             \A identifier \in Referenced(declared[k]) : CurrentValue(i, identifier).some
      /\ trace[i].res.ok =>
           \A k \in 1..Len(declared) :
             LET resolved == trace[i].res.value.args[k] IN
             CASE declared[k].type = VARIABLE_REF_TYPE ->
                    resolved = CurrentValue(i, declared[k].identifier).v
               [] declared[k].type = VALUE_FORMATTER_TYPE ->
                    declared[k].fmt_str = "--{}" =>
                      resolved = "--" \o CurrentValue(i, declared[k].values[1].identifier).v
               [] OTHER -> TRUE

\* realize gave the variable "2" the value "y" from the command line, the
\* setter of the first action of the node then wrote "w", and the command of
\* the second action has been built from the new value
C31_Witness ==
  \E i \in 1..Len(trace) :
    /\ IsCommand(trace[i])
    /\ trace[i].res.ok
    /\ VariableEntry_value(StoreAsParsed["2"]) = Some("y")
    /\ \E j \in 1..(i - 1) :
         /\ IsSetter(trace[j])
         /\ TargetOf(trace[j]) = "2"
         /\ VariableEntry_value(trace[j].post["2"]) = Some("w")
    /\ trace[i].res.value.args = <<"w", "--w", "literal">>

(* ---- C32 ---- *)

\* the path expression of the tool of the call, as the interpolator leaves it
PathOf(c) ==
  CASE c.interpolator.impl = "NoStringInterp" -> Some(c.path)
    [] c.interpolator.impl = "&str" -> Some(c.interpolator.s)
    [] OTHER -> None

\* the path below the workflow's directory
Below(dir, path) == IF dir = "/" THEN "/" \o path ELSE dir \o "/" \o path

\* C32: the path of a path-based tool is used as it is when absolute and is
\* joined to the directory of the workflow when relative; cmd gives that full
\* path when an executable file is there, and no path when the file is absent
\* or not executable.
C32_PathBasedToolResolution ==
  (/\ Returns("cmd")
   /\ ~call.v.builtin
   /\ call.v.path # "" /\ ~contains(call.v.path, " ")
   /\ PathOf(call.v).some) =>
    LET path == PathOf(call.v).v
        full_path == IF SubSeq(path, 1, 1) = "/" THEN path
                     ELSE Below(call.v.workflow_dir, path)
    IN
    /\ full_path \in call.v.fs.executable => ret.v = Ok(Some(full_path))
    /\ full_path \notin call.v.fs.executable => ret.v = Ok(None)

\* a relative path names an executable file under the directory of the
\* workflow, and cmd has given the joined path
C32_Witness ==
  /\ Returns("cmd")
  /\ ~call.v.builtin
  /\ call.v.path = "d/t"
  /\ call.v.workflow_dir = "/w"
  /\ call.v.interpolator = NoStringInterp
  /\ "/w/d/t" \in call.v.fs.executable
  /\ ret.v = Ok(Some("/w/d/t"))

(* ---- C33 ---- *)

\* the run of the graph has returned an error
GraphRunFailed == result.some /\ ~result.v.ok

\* C33: an error raised while the graph runs (a node or an action failing)
\* reaches the result of the run command, which reports it and ends with a
\* non-zero exit code: a failed graph run never ends as success.
C33_RunErrorPropagates ==
  (outcome.some /\ GraphRunFailed) =>
    /\ ~outcome.v.res.ok
    /\ outcome.v.printed.some
    /\ outcome.v.exit_code # 0

(* ---- C34 ---- *)

\* C34: every constructed node has at least one action: neither node(...) nor
\* sequence(...) yields a node with an empty action list, so Node.run always
\* has a last ActionCtx to hand to Next and never ends for want of one.
C34_NodeHasAnAction ==
  (Constructed /\ main.v.ok) =>
    /\ \A i \in 1..Len(TheWorkflow.graph) : Len(TheWorkflow.graph[i].actions) >= 1
    /\ node_res # Some(Err("TODO"))

(* ---- C35 ---- *)

\* Action::run has left its loop
PumpEnded == pump.at \in {"wait", "done"}

\* C35: whatever the order of the child's writes to stdout and stderr over
\* bounded pipes, a child that goes on to close both streams has the loop of
\* Action::run end: the reader never waits on one stream while the child is
\* blocked writing to the other.
C35_PumpTerminates == <>PumpEnded

(* ---- C36 ---- *)

RECURSIVE as_bytes(_)
\* str::as_bytes of a text of "a"s
as_bytes(s) ==
  IF Len(s) = 0 THEN <<>>
  ELSE <<(IF SubSeq(s, 1, 1) = "a" THEN 97 ELSE 63)>> \o as_bytes(SubSeq(s, 2, Len(s)))

\* C36: when the action has setters, what the collector holds once the loop
\* has ended, and the stdout and stderr of the ActionCtx made from it, are the
\* bytes the child wrote to each stream, each once and in order, however many
\* read cycles brought them; when it has no setters nothing is ever buffered
\* and the stdout and stderr of the ActionCtx are empty.
C36_CapturedOutput ==
  Running =>
    LET collector == pump.output_collector IN
    /\ (collector.should_collect /\ PumpEnded) =>
         /\ collector.stdout = pump.written["stdout"]
         /\ collector.stderr = pump.written["stderr"]
    /\ ~collector.should_collect => (collector.stdout = <<>> /\ collector.stderr = <<>>)
    /\ (pump.ctx.some /\ pump.ctx.v.ok) =>
         IF collector.should_collect
         THEN /\ as_bytes(pump.ctx.v.value.stdout) = pump.written["stdout"]
              /\ as_bytes(pump.ctx.v.value.stderr) = pump.written["stderr"]
         ELSE /\ pump.ctx.v.value.stdout = ""
              /\ pump.ctx.v.value.stderr = ""

\* an action with setters has an ActionCtx whose stdout came in two read cycles
\* with a read of stderr between them
C36_Witness ==
  /\ pump.ctx.some /\ pump.ctx.v.ok
  /\ pump.output_collector.should_collect
  /\ pump.written["stdout"] = <<97, 97>>
  /\ pump.written["stderr"] = <<97>>
  /\ pump.ctx.v.value.stdout = "aa"
  /\ pump.ctx.v.value.stderr = "a"

(* ---- C37 ---- *)

\* C37: when add_variable fails because a variable of that name exists, the
\* variable registered before (its value and provenance, env, cli_flag and
\* scopes) is still in the context, unchanged.
C37_FailedAddKeepsTheVariable ==
  (last.op = "add_variable" /\ ~last.res.ok) =>
    /\ last.key \in DOMAIN last.pre
    /\ vars[last.key] = last.pre[last.key]

(* ---- C38 ---- *)

\* the registry the call worked on, as it is now
RegistryOf(op) ==
  IF op \in {"add_variable", "update_from_environment", "with_variable", "with_variable_mut"}
  THEN vars ELSE store

\* the value and the provenance the call gave to the variable v with key k
SuppliedBy(c, k, v) ==
  LET ctx == v.value_ctx.v IN
  CASE c.op \in {"add_variable", "register_variable"} ->
         /\ k = c.key
         /\ ctx.updated_by = DefaultValue
    [] c.op \in {"update_from_environment", "realize_variables"} ->
         \/ /\ CliMatched(v, c.args)
            /\ ctx.updated_by = CLIFlag(v.cli_flag.v)
            /\ \E i \in 1..(Len(c.args) - 1) :
                 c.args[i] = v.cli_flag.v /\ ctx.value = c.args[i + 1]
         \/ /\ EnvGives(v)
            /\ ctx.updated_by = EnvironmentVariable(v.env.v)
            /\ ctx.value = environ[v.env.v].val
    [] c.op = "with_variable_mut" ->
         /\ k = c.key
         /\ c.res.ok
         /\ ctx = ValueContext(c.value, Action(c.who))
    [] c.op = "update_variable_value" ->
         /\ k = c.key
         /\ ctx = ValueContext(c.value, c.by)
    [] OTHER -> FALSE

\* C38: whatever register, realize, write_value and update_value operations
\* have run, a variable with a value has a provenance (DefaultValue,
\* CLIFlag(flag), EnvironmentVariable(name) or Action), and each operation
\* leaves every variable either as it was, value and provenance, or with the
\* value it supplied and the provenance that names it (a variable just
\* registered without a default has no value): no value changes without its
\* provenance being recorded.
C38_ValueHasItsProvenance ==
  /\ \A registry \in {vars, store} :
       \A k \in DOMAIN registry :
         registry[k].value_ctx.some =>
           registry[k].value_ctx.v.updated_by.kind \in
             {"DefaultValue", "CLIFlag", "EnvironmentVariable", "Action"}
  /\ last # Idle =>
       \A k \in DOMAIN RegistryOf(last.op) :
         LET v == RegistryOf(last.op)[k] IN
         \/ k \in DOMAIN last.pre /\ v.value_ctx = last.pre[k].value_ctx
         \/ /\ ~v.value_ctx.some
            /\ last.op \in {"add_variable", "register_variable"}
            /\ k = last.key
         \/ v.value_ctx.some /\ SuppliedBy(last, k, v)

\* a variable whose value came from the command line has been written by an
\* action: the value and the provenance are now those of the write
C38_Witness ==
  /\ last.op = "with_variable_mut"
  /\ last.res.ok
  /\ last.key \in DOMAIN last.pre
  /\ last.pre[last.key].value_ctx.some
  /\ last.pre[last.key].value_ctx.v.updated_by.kind = "CLIFlag"
  /\ vars[last.key].value_ctx = Some(ValueContext(last.value, Action(last.who)))

(* ---- C39 ---- *)

\* C39: every named argument passed to a stub is bound in the record handed to
\* the implementation, or the invocation fails: an argument whose name the
\* spec does not declare is never dropped silently, not even when as many
\* arguments are passed as the spec has entries.
C39_UnknownArgumentIsNeverDropped ==
  (Returns("invoke") /\ ret.v.ok) =>
    \A n \in ArgNames : n \in DOMAIN ret.v.value.args

(* ---- C40 ---- *)

\* C40: a node is only constructed with a next that is a Next: node(...) and
\* sequence(...) both reject any other next value, so the next of a constructed
\* node is none or a Next, and no run ends a node with a next value that was
\* never called.
C40_NextIsANext ==
  /\ \A value \in {Str("b"), IntValue(1)} : ~node_impl("a", PlainAction, Some(value)).ok
  /\ (Constructed /\ main.v.ok) =>
       \A i \in 1..Len(TheWorkflow.graph) :
         TheWorkflow.graph[i].next.type \in {"NoneType", NEXT_TYPE}
  /\ \A i \in 1..Len(trace) :
       (trace[i].ev = "run" /\ node_res.some /\ node_res.v.ok) =>
         (NodeOf(trace[i]).next.type # "NoneType" =>
            \E j \in (i + 1)..Len(trace) : IsNext(trace[j]))

====
